---- MODULE Spec2Model ----
(***************************************************************************)
(* cosmos-withdrawer: one invocation of the `setup-valoper` or `withdraw`  *)
(* subcommand, from chain metadata resolution to broadcast and             *)
(* confirmation.  The run is a single task of sequential awaits; `pc` is   *)
(* the await (or straight-line block) the task is at, `trace` is the list  *)
(* of calls and chain interactions it has made so far.                     *)
(***************************************************************************)
EXTENDS Integers, Sequences, FiniteSets, TLC

(***************************************************************************)
(* Option<T>                                                               *)
(***************************************************************************)
None == [some |-> FALSE]
Some(v) == [some |-> TRUE, value |-> v]
Opt(S) == {None} \cup {Some(v) : v \in S}
\* Variant: the fallback is taken whether or not a value is present.
UnwrapOr_fallback(o, d) == d
UnwrapOr(o, d) == IF o.some THEN o.value ELSE d

Range(s) == {s[i] : i \in 1..Len(s)}

\* Sequences over S of length 0..n.
SeqUpTo(S, n) == UNION {[1..k -> S] : k \in 0..n}

(***************************************************************************)
(* Bounds of the explored inputs.                                          *)
(***************************************************************************)
\* Entries in a total-rewards response.
MaxEntries == 2
\* Reward coins in a total-rewards response, over all its entries.
MaxCoins == 2

(***************************************************************************)
(* Program constants.                                                      *)
(***************************************************************************)
PollAttempts == 5
PollDelayMs == 2500

(***************************************************************************)
(* Strings of the explored inputs.                                         *)
(***************************************************************************)
Denoms == {"uatom", "uosmo"}
\* Decimal strings, one character per element.
Digits == {"0", "1", "2", "3", "4", "5", "6", "7", "8", "9"}
DigitValue(c) ==
    CASE c = "0" -> 0 [] c = "1" -> 1 [] c = "2" -> 2 [] c = "3" -> 3
      [] c = "4" -> 4 [] c = "5" -> 5 [] c = "6" -> 6 [] c = "7" -> 7
      [] c = "8" -> 8 [] c = "9" -> 9

\* str::parse::<BigUint>(): Err on the empty string and on any non-digit,
\* else the decimal value, of any size.
RECURSIVE DecimalValue(_)
DecimalValue(s) ==
    IF s = <<>> THEN 0
    ELSE 10 * DecimalValue(SubSeq(s, 1, Len(s) - 1)) + DigitValue(s[Len(s)])

ParseBigUint(s) ==
    IF s = <<>> \/ \E i \in 1..Len(s) : s[i] \notin Digits
    THEN [ok |-> FALSE]
    ELSE [ok |-> TRUE, value |-> DecimalValue(s)]

(***************************************************************************)
(* Addresses.  A bech32 string is its human-readable prefix, its payload   *)
(* bytes and whether it is well-formed; AccountId::from_str rejects the    *)
(* ill-formed ones and keeps prefix and bytes of the others.               *)
(***************************************************************************)
Bech32(hrp, bytes) == [hrp |-> hrp, bytes |-> bytes, wf |-> TRUE]
Malformed == [hrp |-> "", bytes |-> 0, wf |-> FALSE]

AccountIdFromStr(s) ==
    IF s.wf THEN [ok |-> TRUE, id |-> [hrp |-> s.hrp, bytes |-> s.bytes]]
    ELSE [ok |-> FALSE]

AccountIdToString(id) == Bech32(id.hrp, id.bytes)

(***************************************************************************)
(* f64 quantities (gas price, gas adjustment) are kept as exact fractions  *)
(* n/d with d > 0; the explored values are dyadic, for which the f64       *)
(* products below are exact.                                               *)
(***************************************************************************)
Frac(n, d) == [n |-> n, d |-> d]
FracOfInt(k) == Frac(k, 1)
FracMul(a, b) == Frac(a.n * b.n, a.d * b.d)
\* f64::ceil and f64::round (half away from zero) of a non-negative value,
\* as the integer-valued float they return.
FracCeil(a) == FracOfInt((a.n + a.d - 1) \div a.d)
FracRound(a) == FracOfInt((2 * a.n + a.d) \div (2 * a.d))
\* `as u64` / `as u128` of an integer-valued, in-range float.
FracAsInt(a) == a.n \div a.d

(***************************************************************************)
(* Message model (ser/mod.rs).  A message is a record with its `kind`;     *)
(* its Any form is the type URL and the field values in field order.       *)
(***************************************************************************)
TypeUrl(kind) ==
    CASE kind = "MsgGrant" -> "/cosmos.authz.v1beta1.MsgGrant"
      [] kind = "MsgSetWithdrawAddress" -> "/cosmos.distribution.v1beta1.MsgSetWithdrawAddress"
      [] kind = "MsgWithdrawDelegatorReward" -> "/cosmos.distribution.v1beta1.MsgWithdrawDelegatorReward"
      [] kind = "MsgWithdrawValidatorCommission" -> "/cosmos.distribution.v1beta1.MsgWithdrawValidatorCommission"
      [] kind = "MsgSend" -> "/cosmos.bank.v1beta1.MsgSend"
      [] kind = "MsgExec" -> "/cosmos.authz.v1beta1.MsgExec"
      [] kind = "GenericAuthorization" -> "/cosmos.authz.v1beta1.GenericAuthorization"

MsgWithdrawDelegatorReward(delegator_address, validator_address) ==
    [kind |-> "MsgWithdrawDelegatorReward",
     delegator_address |-> delegator_address,
     validator_address |-> validator_address]

MsgWithdrawValidatorCommission(validator_address) ==
    [kind |-> "MsgWithdrawValidatorCommission",
     validator_address |-> validator_address]

MsgSetWithdrawAddress(delegator_address, withdraw_address) ==
    [kind |-> "MsgSetWithdrawAddress",
     delegator_address |-> delegator_address,
     withdraw_address |-> withdraw_address]

GenericAuthorization(msg) == [kind |-> "GenericAuthorization", msg |-> msg]

\* Grant { authorization: Some(ProtoAny(GenericAuthorization)), expiration }
MsgGrant(granter, grantee, authorization, expiration) ==
    [kind |-> "MsgGrant", granter |-> granter, grantee |-> grantee,
     grant |-> [authorization |-> authorization, expiration |-> expiration]]

MsgSend(from_address, to_address, amount) ==
    [kind |-> "MsgSend", from_address |-> from_address,
     to_address |-> to_address, amount |-> amount]

MsgExecCustom(grantee, msgs) ==
    [kind |-> "MsgExec", grantee |-> grantee, msgs |-> msgs]

ProtoAny(type_url, value) == [type_url |-> type_url, value |-> value]

RECURSIVE to_any(_)
\* Variant: to_native_msg_exec collects the nested messages last to first.
to_any_reversed(m) ==
    CASE m.kind = "MsgGrant" ->
           ProtoAny(TypeUrl(m.kind),
               <<m.granter, m.grantee, <<m.grant.authorization, m.grant.expiration>> >>)
      [] m.kind = "MsgSetWithdrawAddress" ->
           ProtoAny(TypeUrl(m.kind), <<m.delegator_address, m.withdraw_address>>)
      [] m.kind = "MsgWithdrawDelegatorReward" ->
           ProtoAny(TypeUrl(m.kind), <<m.delegator_address, m.validator_address>>)
      [] m.kind = "MsgWithdrawValidatorCommission" ->
           ProtoAny(TypeUrl(m.kind), <<m.validator_address>>)
      [] m.kind = "MsgSend" ->
           ProtoAny(TypeUrl(m.kind), <<m.from_address, m.to_address, m.amount>>)
      [] m.kind = "MsgExec" ->
           ProtoAny(TypeUrl(m.kind),
               <<m.grantee,
                 [i \in 1..Len(m.msgs) |-> to_any(m.msgs[Len(m.msgs) + 1 - i])]>>)
      [] m.kind = "GenericAuthorization" ->
           ProtoAny(TypeUrl(m.kind), <<m.msg>>)

to_any(m) ==
    CASE m.kind = "MsgGrant" ->
           ProtoAny(TypeUrl(m.kind),
               <<m.granter, m.grantee, <<m.grant.authorization, m.grant.expiration>> >>)
      [] m.kind = "MsgSetWithdrawAddress" ->
           ProtoAny(TypeUrl(m.kind), <<m.delegator_address, m.withdraw_address>>)
      [] m.kind = "MsgWithdrawDelegatorReward" ->
           ProtoAny(TypeUrl(m.kind), <<m.delegator_address, m.validator_address>>)
      [] m.kind = "MsgWithdrawValidatorCommission" ->
           ProtoAny(TypeUrl(m.kind), <<m.validator_address>>)
      [] m.kind = "MsgSend" ->
           ProtoAny(TypeUrl(m.kind), <<m.from_address, m.to_address, m.amount>>)
      [] m.kind = "MsgExec" ->
           \* to_native_msg_exec: every nested message through to_any, in order
           ProtoAny(TypeUrl(m.kind), <<m.grantee, [i \in 1..Len(m.msgs) |-> to_any(m.msgs[i])]>>)
      [] m.kind = "GenericAuthorization" ->
           ProtoAny(TypeUrl(m.kind), <<m.msg>>)

\* The JSON projection: an object keyed by field name, "@type" first.
RECURSIVE to_value(_)
to_value(m) ==
    CASE m.kind = "MsgGrant" ->
           [f \in {"@type", "granter", "grantee", "grant"} |->
              CASE f = "@type" -> TypeUrl(m.kind)
                [] f = "granter" -> m.granter
                [] f = "grantee" -> m.grantee
                [] f = "grant" -> m.grant]
      [] m.kind = "MsgSetWithdrawAddress" ->
           [f \in {"@type", "delegator_address", "withdraw_address"} |->
              CASE f = "@type" -> TypeUrl(m.kind)
                [] f = "delegator_address" -> m.delegator_address
                [] f = "withdraw_address" -> m.withdraw_address]
      [] m.kind = "MsgWithdrawDelegatorReward" ->
           [f \in {"@type", "delegator_address", "validator_address"} |->
              CASE f = "@type" -> TypeUrl(m.kind)
                [] f = "delegator_address" -> m.delegator_address
                [] f = "validator_address" -> m.validator_address]
      [] m.kind = "MsgWithdrawValidatorCommission" ->
           [f \in {"@type", "validator_address"} |->
              CASE f = "@type" -> TypeUrl(m.kind)
                [] f = "validator_address" -> m.validator_address]
      [] m.kind = "MsgSend" ->
           [f \in {"@type", "from_address", "to_address", "amount"} |->
              CASE f = "@type" -> TypeUrl(m.kind)
                [] f = "from_address" -> m.from_address
                [] f = "to_address" -> m.to_address
                [] f = "amount" -> m.amount]
      [] m.kind = "MsgExec" ->
           [f \in {"@type", "grantee", "msgs"} |->
              CASE f = "@type" -> TypeUrl(m.kind)
                [] f = "grantee" -> m.grantee
                [] f = "msgs" -> [i \in 1..Len(m.msgs) |-> to_value(m.msgs[i])]]
      [] m.kind = "GenericAuthorization" ->
           [f \in {"@type", "msg"} |->
              CASE f = "@type" -> TypeUrl(m.kind)
                [] f = "msg" -> m.msg]

\* Variant: the memo is left out of the body.
construct_transaction_body_without_memo(memo, msgs) ==
    [memo |-> "", messages |-> [i \in 1..Len(msgs) |-> to_any(msgs[i])]]

\* wallet::construct_transaction_body
construct_transaction_body(memo, msgs) ==
    [memo |-> memo, messages |-> [i \in 1..Len(msgs) |-> to_any(msgs[i])]]

Fee(denom, amount, gas_limit) ==
    [amount |-> <<[denom |-> denom, amount |-> amount]>>, gas_limit |-> gas_limit]

\* cosmos_sdk_extra::tx::generate_unsigned_tx_json
generate_unsigned_tx_json(msgs, memo, gas_limit, fee_tokens) ==
    [body |-> [messages |-> [i \in 1..Len(msgs) |-> to_value(msgs[i])],
               memo |-> memo],
     auth_info |-> [signer_infos |-> <<>>,
                    fee |-> [amount |-> fee_tokens, gas_limit |-> gas_limit]],
     signatures |-> <<>>]

(***************************************************************************)
(* Result<T, eyre::Report>                                                 *)
(***************************************************************************)
Ok(v) == [ok |-> TRUE, value |-> v]
Err(e) == [ok |-> FALSE, err |-> e]

\* Any::to_msg for each message type: the value is decoded as the type the
\* type URL names, a MsgExec's nested Any each by its own type URL.
RECURSIVE from_any(_)
from_any(any) ==
    LET v == any.value IN
    CASE any.type_url = "/cosmos.authz.v1beta1.MsgGrant" /\ Len(v) = 3 ->
           Ok(MsgGrant(v[1], v[2], v[3][1], v[3][2]))
      [] any.type_url = "/cosmos.distribution.v1beta1.MsgSetWithdrawAddress"
            /\ Len(v) = 2 ->
           Ok(MsgSetWithdrawAddress(v[1], v[2]))
      [] any.type_url = "/cosmos.distribution.v1beta1.MsgWithdrawDelegatorReward"
            /\ Len(v) = 2 ->
           Ok(MsgWithdrawDelegatorReward(v[1], v[2]))
      [] any.type_url = "/cosmos.distribution.v1beta1.MsgWithdrawValidatorCommission"
            /\ Len(v) = 1 ->
           Ok(MsgWithdrawValidatorCommission(v[1]))
      [] any.type_url = "/cosmos.bank.v1beta1.MsgSend" /\ Len(v) = 3 ->
           Ok(MsgSend(v[1], v[2], v[3]))
      [] any.type_url = "/cosmos.authz.v1beta1.MsgExec" /\ Len(v) = 2 ->
           LET nested == [i \in 1..Len(v[2]) |-> from_any(v[2][i])] IN
           IF \E i \in DOMAIN nested : ~nested[i].ok
           THEN Err("failed to decode nested message")
           ELSE Ok(MsgExecCustom(v[1], [i \in DOMAIN nested |-> nested[i].value]))
      [] any.type_url = "/cosmos.authz.v1beta1.GenericAuthorization" /\ Len(v) = 1 ->
           Ok(GenericAuthorization(v[1]))
      [] OTHER -> Err("unexpected type URL")

(***************************************************************************)
(* Chain queries (cosmos_sdk_extra/abci_query.rs, rpc.rs).  A reply is     *)
(* what the node answers: the transport may fail, the response code may be *)
(* non-zero, and the value may fail to decode.                             *)
(***************************************************************************)
TransportFailure == [transport_ok |-> FALSE, code |-> 0, value |-> None]
Rejected == [transport_ok |-> TRUE, code |-> 1, value |-> None]
Undecodable == [transport_ok |-> TRUE, code |-> 0, value |-> None]
Answer(v) == [transport_ok |-> TRUE, code |-> 0, value |-> Some(v)]
\* Every reply a node may give to a query whose decoded answer is v.
Replies(v) == {TransportFailure, Rejected, Undecodable, Answer(v)}

\* What a query leaves in the trace: its name, then how it failed if it did.
QueryCalls(query, reply) ==
    <<query>> \o (IF ~reply.transport_ok THEN <<"!transport">>
                  ELSE IF reply.code # 0 THEN <<"!code">>
                  ELSE IF ~reply.value.some THEN <<"!decode">>
                  ELSE <<>>)

execute_abci_query(reply) ==
    IF ~reply.transport_ok THEN Err("failed to do abci query")
    ELSE IF reply.code # 0 THEN Err("rpc error code")
    ELSE IF ~reply.value.some THEN Err("failed to decode response")
    ELSE Ok(reply.value.value)

\* bech32::Hrp::parse: the empty prefix is the ill-formed one explored.
\* Variant: every string is taken for a prefix.
HrpParse_unchecked(s) == Ok(s)

HrpParse(s) == IF s = "" THEN Err("invalid hrp") ELSE Ok(s)

(***************************************************************************)
(* chain::get_chain_info.  `calls` lists the queries issued, in order.     *)
(***************************************************************************)
get_chain_info(supplied_account_hrp, supplied_valoper_hrp, status_reply, bech32_reply, params_reply) ==
    LET bech32 == execute_abci_query(bech32_reply)
        params == execute_abci_query(params_reply)
        queried == ~supplied_account_hrp.some
        prefix == IF queried THEN bech32.value.bech32_prefix
                  ELSE supplied_account_hrp.value
        calls1 == <<"get_status">>
        calls2 == IF queried THEN calls1 \o QueryCalls("Bech32Prefix", bech32_reply)
                  ELSE calls1
        calls3 == calls2 \o QueryCalls("QueryDistributionParams", params_reply)
        supported == IF params.value.params.some
                     THEN params.value.params.value.withdraw_addr_enabled
                     ELSE FALSE
        valoper == IF supplied_valoper_hrp.some THEN supplied_valoper_hrp.value
                   ELSE prefix \o "valoper"
    IN  IF ~status_reply.ok
        THEN [calls |-> calls1, result |-> Err("failed to get chain status")]
        ELSE IF queried /\ ~bech32.ok
        THEN [calls |-> calls2, result |-> Err("failed to query chain bech32 prefix")]
        ELSE IF ~params.ok
        THEN [calls |-> calls3,
              result |-> Err("failed to query chain distribution module parameters")]
        ELSE IF ~HrpParse(prefix).ok
        THEN [calls |-> calls3, result |-> Err("failed to parse account prefix")]
        ELSE IF ~HrpParse(valoper).ok
        THEN [calls |-> calls3, result |-> Err("failed to parse valoper prefix")]
        ELSE [calls |-> calls3,
              result |-> Ok([id |-> status_reply.value.network,
                             chain_supports_setting_withdrawal_address |-> supported,
                             bech32_account_prefix |-> prefix,
                             bech32_valoper_prefix |-> valoper])]

(***************************************************************************)
(* Gas (cosmos_sdk_extra/gas.rs, chain_registry/mod.rs).                   *)
(***************************************************************************)
\* The bundled chain id -> (gas denom, gas price) table.
CHAIN_GAS_DENOMS_PRICES ==
    [id \in {"cosmoshub-4"} |-> [denom |-> "uatom", price |-> Frac(1, 4)]]

GasAuto == [auto |-> TRUE, value |-> 0]
GasAmount(v) == [auto |-> FALSE, value |-> v]

\* Variant: the registry entry of the chain is preferred to a supplied price.
determine_gas_registry_first(info, transaction_args) ==
    LET supplied == transaction_args.gas_prices
        known == info.id \in DOMAIN CHAIN_GAS_DENOMS_PRICES
        limit == IF transaction_args.gas.auto THEN None
                 ELSE Some(transaction_args.gas.value)
        mk(denom, price) ==
            Ok([price |-> price, adjustment |-> transaction_args.gas_adjustment,
                denom |-> denom, limit |-> limit])
    IN  IF known THEN mk(CHAIN_GAS_DENOMS_PRICES[info.id].denom,
                         CHAIN_GAS_DENOMS_PRICES[info.id].price)
        ELSE IF supplied # <<>> THEN mk(supplied[1].denom, supplied[1].amount)
        ELSE Err("Unknown chain id")

determine_gas(info, transaction_args) ==
    LET supplied == transaction_args.gas_prices
        known == info.id \in DOMAIN CHAIN_GAS_DENOMS_PRICES
        limit == IF transaction_args.gas.auto THEN None
                 ELSE Some(transaction_args.gas.value)
        mk(denom, price) ==
            Ok([price |-> price, adjustment |-> transaction_args.gas_adjustment,
                denom |-> denom, limit |-> limit])
    IN  IF supplied # <<>> THEN mk(supplied[1].denom, supplied[1].amount)
        ELSE IF known THEN mk(CHAIN_GAS_DENOMS_PRICES[info.id].denom,
                              CHAIN_GAS_DENOMS_PRICES[info.id].price)
        ELSE Err("Unknown chain id")

\* Variant: the amount is rounded to the nearest integer, as simulate_tx does.
get_fee_rounded(gas) ==
    IF gas.limit.some
    THEN Some(Fee(gas.denom,
                  FracAsInt(FracRound(FracMul(
                      FracCeil(FracMul(FracOfInt(gas.limit.value), gas.adjustment)),
                      gas.price))),
                  gas.limit.value))
    ELSE None

get_fee(gas) ==
    IF gas.limit.some
    THEN Some(Fee(gas.denom,
                  FracAsInt(FracCeil(FracMul(
                      FracCeil(FracMul(FracOfInt(gas.limit.value), gas.adjustment)),
                      gas.price))),
                  gas.limit.value))
    ELSE None

(***************************************************************************)
(* Wallet (wallet/mod.rs).                                                 *)
(***************************************************************************)
Secp256k1 == [variant |-> "Secp256k1", injective |-> FALSE]
EthermintSecp256k1(injective) ==
    [variant |-> "EthermintSecp256k1", injective |-> injective]
WalletKeyTypes == {Secp256k1, EthermintSecp256k1(FALSE), EthermintSecp256k1(TRUE)}

\* impl TryFrom<&Any> for WalletKeyType, on the public key's type URL
WalletKeyTypeFromAny(type_url) ==
    CASE type_url = "/cosmos.crypto.secp256k1.PubKey" -> Ok(Secp256k1)
      [] type_url = "/ethermint.crypto.v1.ethsecp256k1.PubKey" ->
           Ok(EthermintSecp256k1(FALSE))
      [] type_url = "/injective.crypto.v1beta1.ethsecp256k1.PubKey" ->
           Ok(EthermintSecp256k1(TRUE))
      [] OTHER -> Err("unsupported public key type")

\* BIP-39 phrases; the last one is not a valid phrase.
ValidMnemonics == {"relief raise grow", "abandon ability able"}
InvalidMnemonic == "not a mnemonic"

derive_key(mnemonic, password, coin_type) ==
    IF coin_type > 2147483647 THEN Err("failed to parse derivation path")
    ELSE IF mnemonic \notin ValidMnemonics THEN Err("failed to parse mnemonic")
    ELSE Ok([mnemonic |-> mnemonic, password |-> password, coin_type |-> coin_type])

\* SigningKey::random(&mut OsRng)
RandomKey == [mnemonic |-> "OsRng", password |-> "", coin_type |-> 0]

\* The 20 address bytes of a key under each scheme: RIPEMD160(SHA256(compressed
\* public key)), or the low 20 bytes of Keccak-256(uncompressed key sans tag).
AddressBytes(variant, key) ==
    IF variant = "Secp256k1" THEN <<"ripemd160-sha256", key.mnemonic, key.coin_type>>
    ELSE <<"keccak256-low20", key.mnemonic, key.coin_type>>

TxSigner(key, key_type, account_number, sequence) ==
    [key |-> key, key_type |-> key_type,
     account_number |-> account_number, sequence |-> sequence]

\* TxSigner::account_id
account_id(signer, hrp) ==
    [hrp |-> hrp, bytes |-> AddressBytes(signer.key_type.variant, signer.key)]

\* TxSigner::signer_public_key: same key bytes, type URL by key type
signer_public_key(signer) ==
    [type_url |->
        IF signer.key_type.variant = "Secp256k1"
        THEN "/cosmos.crypto.secp256k1.PubKey"
        ELSE IF signer.key_type.injective
        THEN "/injective.crypto.v1beta1.ethsecp256k1.PubKey"
        ELSE "/ethermint.crypto.v1.ethsecp256k1.PubKey",
     key |-> signer.key]

SigningAccountType(role, key_type, account_number, sequence) ==
    [role |-> role, key_type |-> key_type,
     account_number |-> account_number, sequence |-> sequence]

\* Variant: the derived address is not compared with the configured one.
setup_signer_unverified(account_args, account_prefix, signing_account_type, generate_only) ==
    LET key_type == signing_account_type.key_type
        account_number == signing_account_type.account_number
        sequence == signing_account_type.sequence
        controller == signing_account_type.role = "controller"
        mnemonic == IF controller THEN account_args.controller_mnemonic
                    ELSE account_args.delegator_mnemonic
        coin_type == IF controller THEN account_args.controller_mnemonic_coin_type
                     ELSE account_args.delegator_mnemonic_coin_type
        signing_key == derive_key(mnemonic.value, "", coin_type)
    IN  IF generate_only
        THEN Ok(TxSigner(RandomKey, key_type, account_number, sequence))
        ELSE IF ~mnemonic.some THEN Err("mnemonic not available")
        ELSE IF ~signing_key.ok THEN signing_key
        ELSE Ok(TxSigner(signing_key.value, key_type, account_number, sequence))

setup_signer(account_args, account_prefix, signing_account_type, generate_only) ==
    LET key_type == signing_account_type.key_type
        account_number == signing_account_type.account_number
        sequence == signing_account_type.sequence
        controller == signing_account_type.role = "controller"
        expected_address == IF controller THEN account_args.controller_address
                            ELSE account_args.delegator_address
        mnemonic == IF controller THEN account_args.controller_mnemonic
                    ELSE account_args.delegator_mnemonic
        coin_type == IF controller THEN account_args.controller_mnemonic_coin_type
                     ELSE account_args.delegator_mnemonic_coin_type
        signing_key == derive_key(mnemonic.value, "", coin_type)
        signer == TxSigner(signing_key.value, key_type, account_number, sequence)
        address == account_id(signer, account_prefix)
    IN  IF generate_only
        THEN Ok(TxSigner(RandomKey, key_type, account_number, sequence))
        ELSE IF ~mnemonic.some THEN Err("mnemonic not available")
        ELSE IF ~signing_key.ok THEN signing_key
        ELSE IF expected_address # address THEN Err("expected address mismatch")
        ELSE Ok(signer)

\* 64 bytes r || s, then the recovery id byte when it is kept.
\* Variant: the recovery id is never appended.
SignatureBytes_bare(with_recovery_id) == [i \in 1..64 |-> "rs"]

SignatureBytes(with_recovery_id) ==
    [i \in 1..64 |-> "rs"] \o (IF with_recovery_id THEN <<"v">> ELSE <<>>)

SignDoc(body, auth_info, chain_id, account_number) ==
    [body |-> body, auth_info |-> auth_info,
     chain_id |-> chain_id, account_number |-> account_number]

AuthInfo(signer, fee) ==
    [signer_infos |-> <<[public_key |-> signer_public_key(signer),
                         mode_info |-> "Direct",
                         sequence |-> signer.sequence]>>,
     fee |-> fee]

sign_transaction(info, signer, fee, body) ==
    LET auth_info == AuthInfo(signer, fee)
        sign_doc == SignDoc(body, auth_info, info.id, signer.account_number)
        signature ==
            IF signer.key_type.variant = "Secp256k1"
            THEN [key |-> signer.key, digest |-> "sha256", doc |-> sign_doc,
                  bytes |-> SignatureBytes(FALSE)]
            ELSE [key |-> signer.key, digest |-> "keccak256", doc |-> sign_doc,
                  bytes |-> SignatureBytes(TRUE)]
    IN  Ok([body |-> body, auth_info |-> auth_info, signatures |-> <<signature>>])

(***************************************************************************)
(* cosmos_sdk_extra::simulate::simulate_tx: the transaction signed with a  *)
(* throwaway fee, the Simulate query, the fee from its gas usage.          *)
(***************************************************************************)
\* Variant: the fee amount is rounded up.
simulate_tx_ceil(info, gas, signer, body, reply) ==
    LET auth_info == AuthInfo(signer, Fee(gas.denom, 1, 1))
        sign_doc == SignDoc(body, auth_info, info.id, signer.account_number)
        tx == [body |-> body, auth_info |-> auth_info,
               signatures |-> <<[key |-> signer.key, digest |-> "sha256",
                                 doc |-> sign_doc,
                                 bytes |-> SignatureBytes(FALSE)]>>]
        response == execute_abci_query(reply)
        sim_gas_info == response.value.gas_info
        gas_limit == FracRound(FracMul(FracOfInt(sim_gas_info.value.gas_used),
                                       gas.adjustment))
        amount == FracAsInt(FracCeil(FracMul(gas_limit, gas.price)))
    IN  [calls |-> QueryCalls("Simulate", reply),
         tx |-> tx,
         result |-> IF ~response.ok THEN response
                    ELSE IF ~sim_gas_info.some
                    THEN Err("Simulation did not contain spent gas info")
                    ELSE Ok(Fee(gas.denom, amount, FracAsInt(gas_limit)))]

simulate_tx(info, gas, signer, body, reply) ==
    LET auth_info == AuthInfo(signer, Fee(gas.denom, 1, 1))
        sign_doc == SignDoc(body, auth_info, info.id, signer.account_number)
        tx == [body |-> body, auth_info |-> auth_info,
               signatures |-> <<[key |-> signer.key, digest |-> "sha256",
                                 doc |-> sign_doc,
                                 bytes |-> SignatureBytes(FALSE)]>>]
        response == execute_abci_query(reply)
        sim_gas_info == response.value.gas_info
        gas_limit == FracRound(FracMul(FracOfInt(sim_gas_info.value.gas_used),
                                       gas.adjustment))
        amount == FracAsInt(FracRound(FracMul(gas_limit, gas.price)))
    IN  [calls |-> QueryCalls("Simulate", reply),
         tx |-> tx,
         result |-> IF ~response.ok THEN response
                    ELSE IF ~sim_gas_info.some
                    THEN Err("Simulation did not contain spent gas info")
                    ELSE Ok(Fee(gas.denom, amount, FracAsInt(gas_limit)))]

(***************************************************************************)
(* Accounts (chain.rs, cmd/mod.rs).  An on-chain account is its type URL   *)
(* and the nesting that leads to its BaseAccount.                          *)
(***************************************************************************)
BaseAccount(address, pub_key, account_number, sequence) ==
    [address |-> address, pub_key |-> pub_key,
     account_number |-> account_number, sequence |-> sequence]

\* An account of the given type: `base_vesting_account` is the Option a
\* vesting account carries, `base_account` the (innermost) BaseAccount.
AccountAny(type_url, base_vesting_account, base_account) ==
    [type_url |-> type_url, base_vesting_account |-> base_vesting_account,
     base_account |-> base_account]

\* Variant: an unrecognised account type falls back to its base account.
get_account_info_fallback(reply) ==
    LET response == execute_abci_query(reply)
        account == response.value.account.value
        vesting ==
            IF ~account.base_vesting_account
            THEN Err("does not have BaseVestingAccount data")
            ELSE IF ~account.base_account.some
            THEN Err("BaseVestingAccount does not have BaseAccount data")
            ELSE Ok(Some(account.base_account.value))
    IN  IF ~response.ok THEN Err("failed to query account")
        ELSE IF ~response.value.account.some THEN Ok(None)
        ELSE CASE account.type_url = "/cosmos.vesting.v1beta1.ContinuousVestingAccount" ->
                    vesting
               [] account.type_url = "/cosmos.vesting.v1beta1.PeriodicVestingAccount" ->
                    vesting
               [] OTHER -> Ok(Some(account.base_account.value))

get_account_info(reply) ==
    LET response == execute_abci_query(reply)
        account == response.value.account.value
        vesting ==
            IF ~account.base_vesting_account
            THEN Err("does not have BaseVestingAccount data")
            ELSE IF ~account.base_account.some
            THEN Err("BaseVestingAccount does not have BaseAccount data")
            ELSE Ok(Some(account.base_account.value))
    IN  IF ~response.ok THEN Err("failed to query account")
        ELSE IF ~response.value.account.some THEN Ok(None)
        ELSE CASE account.type_url = "/cosmos.auth.v1beta1.BaseAccount" ->
                    Ok(Some(account.base_account.value))
               [] account.type_url = "/cosmos.vesting.v1beta1.ContinuousVestingAccount" ->
                    vesting
               [] account.type_url = "/cosmos.vesting.v1beta1.PeriodicVestingAccount" ->
                    vesting
               [] account.type_url = "/ethermint.types.v1.EthAccount" ->
                    Ok(Some(account.base_account.value))
               [] account.type_url = "/injective.types.v1beta1.EthAccount" ->
                    Ok(Some(account.base_account.value))
               [] OTHER -> Err("unsupported account type")

\* The key type an account's public key stands for, None without a key.
account_key_type(base_account) ==
    IF ~base_account.pub_key.some THEN Ok(None)
    ELSE LET t == WalletKeyTypeFromAny(base_account.pub_key.value)
         IN  IF t.ok THEN Ok(Some(t.value)) ELSE t

\* WalletKeyType::override_type
override_type(key_type, override) == UnwrapOr(override, key_type)

\* Variant: the check left commented out in the source is in force, a
\* reward address equal to the controller address is refused.
verify_accounts_strict(account_args, info) ==
    LET prefix == info.bech32_account_prefix IN
    IF account_args.delegator_address.hrp # prefix
    THEN Err("provided delegator address prefix does not match with chain")
    ELSE IF account_args.controller_address.hrp # prefix
    THEN Err("provided controller address prefix does not match with chain")
    ELSE IF account_args.delegator_address = account_args.controller_address
    THEN Err("delegator and controller addresses should not be equal")
    ELSE IF account_args.reward_address.some
            /\ account_args.reward_address.value.hrp # prefix
    THEN Err("provided reward address prefix does not match with chain")
    ELSE IF account_args.reward_address.some
            /\ account_args.reward_address.value = account_args.delegator_address
    THEN Err("delegator and reward addresses should not be equal")
    ELSE IF account_args.reward_address.some
            /\ account_args.reward_address.value = account_args.controller_address
    THEN Err("controller and reward addresses should not be equal")
    ELSE Ok(TRUE)

verify_accounts(account_args, info) ==
    LET prefix == info.bech32_account_prefix IN
    IF account_args.delegator_address.hrp # prefix
    THEN Err("provided delegator address prefix does not match with chain")
    ELSE IF account_args.controller_address.hrp # prefix
    THEN Err("provided controller address prefix does not match with chain")
    ELSE IF account_args.delegator_address = account_args.controller_address
    THEN Err("delegator and controller addresses should not be equal")
    ELSE IF account_args.reward_address.some
            /\ account_args.reward_address.value.hrp # prefix
    THEN Err("provided reward address prefix does not match with chain")
    ELSE IF account_args.reward_address.some
            /\ account_args.reward_address.value = account_args.delegator_address
    THEN Err("delegator and reward addresses should not be equal")
    ELSE Ok(TRUE)

\* Variant: both account queries are issued before either result is looked
\* at.
get_account_details_concurrent(account_args, info, delegator_reply, controller_reply) ==
    LET verified == verify_accounts(account_args, info)
        d == get_account_info(delegator_reply)
        d_type == account_key_type(d.value.value)
        c == get_account_info(controller_reply)
        c_type == account_key_type(c.value.value)
        delegator_key_type ==
            override_type(d_type.value.value, account_args.delegator_address_type)
        controller_key_type ==
            override_type(UnwrapOr(c_type.value, delegator_key_type),
                          account_args.controller_address_type)
        calls2 == QueryCalls("QueryAccount(delegator)", delegator_reply)
                  \o QueryCalls("QueryAccount(controller)", controller_reply)
    IN  IF ~verified.ok THEN [calls |-> <<>>, result |-> verified]
        ELSE IF ~d.ok THEN [calls |-> calls2, result |-> d]
        ELSE IF ~d.value.some
        THEN [calls |-> calls2, result |-> Err("delegator account is not initialized")]
        ELSE IF ~d_type.ok THEN [calls |-> calls2, result |-> d_type]
        ELSE IF ~d_type.value.some
        THEN [calls |-> calls2,
              result |-> Err("delegation account does not have public key information")]
        ELSE IF ~c.ok THEN [calls |-> calls2, result |-> c]
        ELSE IF ~c.value.some
        THEN [calls |-> calls2, result |-> Err("controller account is not initialized")]
        ELSE IF ~c_type.ok THEN [calls |-> calls2, result |-> c_type]
        ELSE [calls |-> calls2,
              result |-> Ok([delegator_account |-> d.value.value,
                             delegator_key_type |-> delegator_key_type,
                             controller_account |-> c.value.value,
                             controller_key_type |-> controller_key_type])]

\* AccountArgs::get_account_details.  `calls` lists the account queries
\* issued, in order.
get_account_details(account_args, info, delegator_reply, controller_reply) ==
    LET verified == verify_accounts(account_args, info)
        d == get_account_info(delegator_reply)
        d_type == account_key_type(d.value.value)
        c == get_account_info(controller_reply)
        c_type == account_key_type(c.value.value)
        delegator_key_type ==
            override_type(d_type.value.value, account_args.delegator_address_type)
        controller_key_type ==
            override_type(UnwrapOr(c_type.value, delegator_key_type),
                          account_args.controller_address_type)
        calls1 == QueryCalls("QueryAccount(delegator)", delegator_reply)
        calls2 == calls1 \o QueryCalls("QueryAccount(controller)", controller_reply)
    IN  IF ~verified.ok THEN [calls |-> <<>>, result |-> verified]
        ELSE IF ~d.ok THEN [calls |-> calls1, result |-> d]
        ELSE IF ~d.value.some
        THEN [calls |-> calls1, result |-> Err("delegator account is not initialized")]
        ELSE IF ~d_type.ok THEN [calls |-> calls1, result |-> d_type]
        ELSE IF ~d_type.value.some
        THEN [calls |-> calls1,
              result |-> Err("delegation account does not have public key information")]
        ELSE IF ~c.ok THEN [calls |-> calls2, result |-> c]
        ELSE IF ~c.value.some
        THEN [calls |-> calls2, result |-> Err("controller account is not initialized")]
        ELSE IF ~c_type.ok THEN [calls |-> calls2, result |-> c_type]
        ELSE [calls |-> calls2,
              result |-> Ok([delegator_account |-> d.value.value,
                             delegator_key_type |-> delegator_key_type,
                             controller_account |-> c.value.value,
                             controller_key_type |-> controller_key_type])]

(***************************************************************************)
(* Reward decision engine (cmd/withdraw.rs).                               *)
(***************************************************************************)
Coin(denom, amount) == [denom |-> denom, amount |-> amount]

EmptyMap == [d \in {} |-> 0]

\* thresholds.iter().map(..).collect::<HashMap<_, _>>(): a later threshold
\* of the same denomination replaces an earlier one.
thresholds_by_denom(thresholds) ==
    [d \in {thresholds[i].denom : i \in 1..Len(thresholds)} |->
        LET last == CHOOSE i \in 1..Len(thresholds) :
                        /\ thresholds[i].denom = d
                        /\ \A j \in (i + 1)..Len(thresholds) : thresholds[j].denom # d
        IN  thresholds[last].amount]

\* Variant: the entry is overwritten with the amount instead of increased.
add_collected_insert(collected, denom, amount) ==
    [d \in DOMAIN collected \cup {denom} |->
        IF d = denom THEN amount ELSE collected[d]]

\* *collected_coins.entry(denom).or_default() += amount
add_collected(collected, denom, amount) ==
    IF denom \in DOMAIN collected
    THEN [collected EXCEPT ![denom] = @ + amount]
    ELSE [d \in DOMAIN collected \cup {denom} |->
            IF d = denom THEN amount ELSE collected[d]]

\* Variant: the account ids are compared whole, prefix included.
is_self_validator_with_prefix(validator_id, delegator_address) ==
    validator_id = delegator_address

\* validator_address.to_bytes() == account.delegator_address.to_bytes()
is_self_validator(validator_id, delegator_address) ==
    validator_id.bytes = delegator_address.bytes

\* for coin in commission { parse; add }: stops at the first amount that
\* does not parse.
RECURSIVE collect_commission(_, _)
collect_commission(collected, commission) ==
    IF commission = <<>> THEN Ok(collected)
    ELSE LET amount == ParseBigUint(commission[1].amount) IN
         IF ~amount.ok THEN Err("failed to parse reward coin amount")
         ELSE collect_commission(
                  add_collected(collected, commission[1].denom, amount.value),
                  Tail(commission))

\* Variant: the comparison also rejects an amount equal to the threshold.
below_threshold_inclusive(amount, threshold) == amount <= threshold

\* amount < *threshold
below_threshold(amount, threshold) == amount < threshold

\* Variant: the threshold is looked up before the amount is parsed, so a
\* coin of a denomination without threshold is passed over unparsed.
reward_coin_lookup_first(by_denom, validators, collected, validator_address, coin) ==
    LET amount == ParseBigUint(coin.amount) IN
    IF coin.denom \notin DOMAIN by_denom
    THEN Ok([withdraw_validators |-> validators, collected_coins |-> collected])
    ELSE IF ~amount.ok THEN Err("failed to parse reward coin amount")
    ELSE IF below_threshold(amount.value, by_denom[coin.denom])
    THEN Ok([withdraw_validators |-> validators, collected_coins |-> collected])
    ELSE Ok([withdraw_validators |-> validators \cup {validator_address},
             collected_coins |-> add_collected(collected, coin.denom, amount.value)])

\* One iteration of `for coin in reward.reward.iter()`.
reward_coin(by_denom, validators, collected, validator_address, coin) ==
    LET amount == ParseBigUint(coin.amount) IN
    IF ~amount.ok THEN Err("failed to parse reward coin amount")
    ELSE IF coin.denom \notin DOMAIN by_denom
    THEN Ok([withdraw_validators |-> validators, collected_coins |-> collected])
    ELSE IF below_threshold(amount.value, by_denom[coin.denom])
    THEN Ok([withdraw_validators |-> validators, collected_coins |-> collected])
    ELSE Ok([withdraw_validators |-> validators \cup {validator_address},
             collected_coins |-> add_collected(collected, coin.denom, amount.value)])

\* Variant: the commission marker is not looked at.
nothing_to_withdraw_validators_only(validators, self_valoper) == validators = {}

\* Variant: the test on the commission marker is inverted.
nothing_to_withdraw_is_some(validators, self_valoper) ==
    validators = {} /\ self_valoper.some

\* withdraw_validators.is_empty() && withdraw_self_valoper.is_none()
nothing_to_withdraw(validators, self_valoper) ==
    validators = {} /\ ~self_valoper.some

\* Every order a HashSet may be iterated in.
Orders(S) ==
    {o \in [1..Cardinality(S) -> S] : \A i, j \in DOMAIN o : i # j => o[i] # o[j]}

\* Variant: the message of the first validator iterated is pushed a second
\* time after the loop over the set.
authz_msgs_repeated(order, delegator_address, self_valoper) ==
    [i \in 1..Len(order) |->
        MsgWithdrawDelegatorReward(AccountIdToString(delegator_address), order[i])]
    \o (IF order # <<>>
        THEN <<MsgWithdrawDelegatorReward(AccountIdToString(delegator_address),
                                          order[1])>>
        ELSE <<>>)
    \o (IF self_valoper.some
        THEN <<MsgWithdrawValidatorCommission(self_valoper.value)>>
        ELSE <<>>)

\* The nested messages for one iteration order of the withdrawal set, the
\* commission message last.
authz_msgs(order, delegator_address, self_valoper) ==
    [i \in 1..Len(order) |->
        MsgWithdrawDelegatorReward(AccountIdToString(delegator_address), order[i])]
    \o (IF self_valoper.some
        THEN <<MsgWithdrawValidatorCommission(self_valoper.value)>>
        ELSE <<>>)

\* Variant: the delegator is named as the grantee of the execution.
withdraw_msgs_grantee_delegator(order, account_args, self_valoper) ==
    <<MsgExecCustom(AccountIdToString(account_args.delegator_address),
                    authz_msgs(order, account_args.delegator_address, self_valoper))>>

\* Variant: the block left commented out in the source is in force, a send
\* to the withdraw address closes the nested list.
withdraw_msgs_with_send(order, account_args, self_valoper) ==
    <<MsgExecCustom(AccountIdToString(account_args.controller_address),
                    authz_msgs(order, account_args.delegator_address, self_valoper)
                    \o <<MsgSend(AccountIdToString(account_args.delegator_address),
                                 AccountIdToString(UnwrapOr(account_args.reward_address,
                                                            account_args.controller_address)),
                                 <<>>)>>)>>

withdraw_msgs(order, account_args, self_valoper) ==
    <<MsgExecCustom(AccountIdToString(account_args.controller_address),
                    authz_msgs(order, account_args.delegator_address, self_valoper))>>

(***************************************************************************)
(* Setup flow (cmd/setup_valoper.rs).                                      *)
(***************************************************************************)
SetupValoperMethods == {"Auto", "AuthzWithdraw", "AuthzSend"}

\* Variant: without the invariant arm, an explicit method is passed through
\* on every chain.
resolve_setup_method_passthrough(method, supported) ==
    CASE method = "Auto" /\ supported -> Ok("AuthzWithdraw")
      [] method = "Auto" /\ ~supported -> Ok("AuthzSend")
      [] OTHER -> Ok(method)

resolve_setup_method(method, supported) ==
    CASE method = "Auto" /\ supported -> Ok("AuthzWithdraw")
      [] method = "Auto" /\ ~supported -> Ok("AuthzSend")
      [] method = "AuthzWithdraw" /\ ~supported ->
           Err("this chain does not support setting withdrawal address for distribution")
      [] OTHER -> Ok(method)

\* Variant: granter and grantee change places.
grant_msg_swapped(account_args, kind, expiration) ==
    MsgGrant(AccountIdToString(account_args.controller_address),
             AccountIdToString(account_args.delegator_address),
             Some(to_any(GenericAuthorization(TypeUrl(kind)))),
             expiration)

grant_msg(account_args, kind, expiration) ==
    MsgGrant(AccountIdToString(account_args.delegator_address),
             AccountIdToString(account_args.controller_address),
             Some(to_any(GenericAuthorization(TypeUrl(kind)))),
             expiration)

setup_msgs(setup_method, account_args, expiration) ==
    IF setup_method = "AuthzWithdraw"
    THEN <<MsgSetWithdrawAddress(
               AccountIdToString(account_args.delegator_address),
               AccountIdToString(UnwrapOr(account_args.reward_address,
                                          account_args.controller_address))),
           grant_msg(account_args, "MsgWithdrawDelegatorReward", expiration),
           grant_msg(account_args, "MsgWithdrawValidatorCommission", expiration)>>
    ELSE <<grant_msg(account_args, "MsgWithdrawDelegatorReward", None),
           grant_msg(account_args, "MsgWithdrawValidatorCommission", None),
           grant_msg(account_args, "MsgSend", None)>>

\* cosmos_sdk_extra::tx::print_tx_result
print_tx_result(tx_response) ==
    IF tx_response.code # 0 THEN Err("transaction failed") ELSE Ok(TRUE)

(***************************************************************************)
(* State.                                                                  *)
(***************************************************************************)
VARIABLES
    args,           \* the parsed command line: subcommand, AccountArgs,
                    \* TransactionArgs, thresholds, method, expiration
    chain,          \* what the node at rpc_url holds and answers
    pc,             \* the step the run is at
    result,         \* "running", or how entrypoint() returned: "ok" / "err"
    error,          \* the error returned, "" if none
    trace,          \* calls and chain interactions made so far, in order
    chain_info,
    gas_info,
    setup_method,
    accounts,       \* ResolvedAccounts
    rewards,        \* delegation_total_rewards.rewards
    idx,            \* entry of `rewards` the pass is at (1-based)
    cidx,           \* 0: entry not yet entered; k: its k-th coin is next
    withdraw_self_valoper,
    withdraw_validators,
    collected_coins,
    msgs,
    signer,
    fee,
    simulated,      \* the transaction handed to the Simulate query
    stdout,         \* the JSON document printed, if any
    signed_tx,
    tx_result,      \* the broadcast_tx_sync response
    attempt,        \* poll_tx loop counter
    elapsed_ms,     \* time slept in poll_tx
    encoded,        \* the Any a message was encoded to
    decoded         \* what decoding that Any by its type URL gave

ser == <<encoded, decoded>>
ctl == <<pc, result, error, trace>>
ctx == <<chain_info, gas_info, setup_method, accounts>>
pass == <<rewards, idx, cidx, withdraw_self_valoper, withdraw_validators,
          collected_coins>>
txv == <<msgs, signer, fee, simulated, stdout, signed_tx>>
bcast == <<tx_result, attempt, elapsed_ms>>
vars == <<args, chain, ctl, ctx, pass, txv, bcast, ser>>

Running(at) == pc = at /\ result = "running"

\* `?` on an Err, or bail!: entrypoint() returns the error.
Fail(e) == /\ result' = "err"
           /\ error' = e
           /\ pc' = "exit"

\* return Ok(())
Return == /\ result' = "ok"
          /\ pc' = "exit"
          /\ UNCHANGED error

Goto(at) == /\ pc' = at
            /\ UNCHANGED <<result, error>>

(***************************************************************************)
(* Steps common to both flows.                                             *)
(***************************************************************************)
\* withdraw.rs:45-46, setup_valoper.rs:42-43
GetChainInfo ==
    /\ Running("get_chain_info")
    /\ \E status_reply \in {Err("transport"), Ok([network |-> chain.id])},
          bech32_reply \in Replies([bech32_prefix |-> chain.bech32_prefix]),
          params_reply \in Replies([params |-> chain.params]) :
          LET r == get_chain_info(args.account_hrp, args.valoper_hrp,
                                  status_reply, bech32_reply, params_reply)
          IN  /\ trace' = trace \o <<"get_chain_info">> \o r.calls
              /\ IF r.result.ok
                 THEN /\ chain_info' = r.result.value
                      /\ Goto("determine_gas")
                 ELSE /\ Fail(r.result.err)
                      /\ UNCHANGED chain_info
    /\ UNCHANGED <<ser, args, chain, gas_info, setup_method, accounts, pass, txv, bcast>>

\* withdraw.rs:47, setup_valoper.rs:44
DetermineGas ==
    /\ Running("determine_gas")
    /\ LET r == determine_gas(chain_info, args) IN
        /\ trace' = trace \o <<"determine_gas">>
        /\ IF r.ok
           THEN /\ gas_info' = Some(r.value)
                /\ Goto(IF args.flow = "setup" THEN "setup_method"
                        ELSE "get_account_details")
           ELSE /\ Fail(r.err)
                /\ UNCHANGED gas_info
    /\ UNCHANGED <<ser, args, chain, chain_info, setup_method, accounts, pass, txv, bcast>>

\* withdraw.rs:53-57, setup_valoper.rs:73-77
GetAccountDetails ==
    /\ Running("get_account_details")
    /\ \E delegator_reply \in Replies([account |-> chain.delegator_account]),
          controller_reply \in Replies([account |-> chain.controller_account]) :
          LET r == get_account_details(args, chain_info,
                                       delegator_reply, controller_reply)
          IN  /\ trace' = trace \o <<"get_account_details">> \o r.calls
              /\ IF r.result.ok
                 THEN /\ accounts' = Some(r.result.value)
                      /\ Goto(IF args.flow = "setup" THEN "setup_msgs"
                              ELSE "query_rewards")
                 ELSE /\ Fail(r.result.err)
                      /\ UNCHANGED accounts
    /\ UNCHANGED <<ser, args, chain, chain_info, gas_info, setup_method, pass, txv, bcast>>

\* withdraw.rs:192-206, setup_valoper.rs:158-172
SetupSigner ==
    /\ Running("setup_signer")
    /\ LET controller == args.flow = "withdraw"
           account == IF controller THEN accounts.value.controller_account
                      ELSE accounts.value.delegator_account
           key_type == IF controller THEN accounts.value.controller_key_type
                       ELSE accounts.value.delegator_key_type
           r == setup_signer(
                    args, chain_info.bech32_account_prefix,
                    SigningAccountType(
                        IF controller THEN "controller" ELSE "delegator",
                        key_type,
                        UnwrapOr(args.account_number, account.account_number),
                        UnwrapOr(args.sequence, account.sequence)),
                    args.generate_only)
       IN  /\ trace' = trace \o <<"setup_signer">>
           /\ IF r.ok
              THEN /\ signer' = Some(r.value)
                   /\ Goto("fee")
              ELSE /\ Fail(r.err)
                   /\ UNCHANGED signer
    /\ UNCHANGED <<ser, args, chain, ctx, pass, msgs, fee, simulated, stdout, signed_tx,
                   bcast>>

\* withdraw.rs:208-219, setup_valoper.rs:175-186
ResolveFee ==
    /\ Running("fee")
    /\ LET static == get_fee(gas_info.value) IN
       IF static.some
       THEN /\ fee' = static
            /\ trace' = trace \o <<"get_fee">>
            /\ Goto("fee_resolved")
            /\ UNCHANGED simulated
       ELSE \E reply \in Replies([gas_info |-> chain.gas_info]) :
              LET r == simulate_tx(chain_info, gas_info.value, signer.value,
                                   construct_transaction_body(args.memo, msgs),
                                   reply)
              IN  /\ trace' = trace \o <<"get_fee", "simulate_tx">> \o r.calls
                  /\ simulated' = Some(r.tx)
                  /\ IF r.result.ok
                     THEN /\ fee' = Some(r.result.value)
                          /\ Goto("fee_resolved")
                     ELSE /\ Fail(r.result.err)
                          /\ UNCHANGED fee
    /\ UNCHANGED <<ser, args, chain, ctx, pass, msgs, signer, stdout, signed_tx, bcast>>

\* `if transaction_args.generate_only { println!(..); return Ok(()) }`
after_fee(transaction_args) ==
    IF transaction_args.generate_only THEN "generate" ELSE "sign"

\* Variant: the dry-run flag is not consulted.
after_sign_ignoring_dry_run(transaction_args) == "broadcast"

\* `if transaction_args.dry_run { return Ok(()) }`
after_sign(transaction_args) ==
    IF transaction_args.dry_run THEN "return" ELSE "broadcast"

\* withdraw.rs:221-228, setup_valoper.rs:188-195
GenerateOnly ==
    /\ Running("fee_resolved")
    /\ after_fee(args) = "generate"
    /\ stdout' = Some(generate_unsigned_tx_json(msgs, args.memo,
                                                fee.value.gas_limit,
                                                fee.value.amount))
    /\ trace' = trace \o <<"generate_unsigned_tx_json">>
    /\ Return
    /\ UNCHANGED <<ser, args, chain, ctx, pass, msgs, signer, fee, simulated, signed_tx,
                   bcast>>

\* withdraw.rs:230-241, setup_valoper.rs:197-208
SignTransaction ==
    /\ Running("fee_resolved")
    /\ after_fee(args) = "sign"
    /\ LET r == sign_transaction(chain_info, signer.value, fee.value,
                                 construct_transaction_body(args.memo, msgs))
       IN  /\ trace' = trace \o <<"sign_transaction">>
           /\ IF ~r.ok
              THEN /\ Fail("failed to sign withdraw transaction")
                   /\ UNCHANGED signed_tx
              ELSE /\ signed_tx' = Some(r.value)
                   /\ IF after_sign(args) = "return" THEN Return
                      ELSE Goto("broadcast")
    /\ UNCHANGED <<ser, args, chain, ctx, pass, msgs, signer, fee, simulated, stdout,
                   bcast>>

\* withdraw.rs:243-249 (the response is printed and the run returns Ok);
\* setup_valoper.rs:210-214 (print_tx_result decides)
Broadcast ==
    /\ Running("broadcast")
    /\ \E reply \in {Err("transport"),
                     Ok([code |-> chain.check_tx_code, hash |-> "tx hash"])} :
          IF ~reply.ok
          THEN /\ trace' = trace \o <<"broadcast_tx_sync">>
               /\ Fail(reply.err)
               /\ UNCHANGED tx_result
          ELSE /\ tx_result' = Some(reply.value)
               /\ IF args.flow = "withdraw"
                  THEN /\ trace' = trace \o <<"broadcast_tx_sync">>
                       /\ Return
                  ELSE /\ trace' = trace \o <<"broadcast_tx_sync", "print_tx_result">>
                       /\ IF print_tx_result(reply.value).ok
                          THEN Goto("poll_tx")
                          ELSE Fail(print_tx_result(reply.value).err)
    /\ UNCHANGED <<ser, args, chain, ctx, pass, txv, attempt, elapsed_ms>>

\* Variant: the loop bound is inclusive.
poll_tx_iteration_inclusive(at, found) ==
    IF found THEN "return"
    ELSE IF at + 1 <= PollAttempts THEN "continue"
    ELSE "bail"

\* tx.rs:57-71, one iteration of `for attempt in 0..5`: what follows a
\* lookup that found the transaction or did not.
poll_tx_iteration(at, found) ==
    IF found THEN "return"
    ELSE IF at + 1 < PollAttempts THEN "continue"
    ELSE "bail"

\* tx.rs:57-71, one iteration of the loop; setup_valoper.rs:215-218
PollTx ==
    /\ Running("poll_tx")
    /\ \E found \in BOOLEAN :
          LET next == poll_tx_iteration(attempt, found) IN
          /\ trace' = trace \o <<IF found THEN "find_by_hash:Ok"
                                  ELSE "find_by_hash:Err">>
          /\ IF found
             THEN UNCHANGED <<attempt, elapsed_ms>>
             ELSE /\ attempt' = attempt + 1
                  /\ elapsed_ms' = elapsed_ms + PollDelayMs
          /\ CASE next = "return" -> Return
               [] next = "continue" -> Goto("poll_tx")
               [] next = "bail" -> Fail("polling for tx timed out")
    /\ UNCHANGED <<ser, args, chain, ctx, pass, txv, tx_result>>

(***************************************************************************)
(* Withdraw flow.                                                          *)
(***************************************************************************)
\* withdraw.rs:59-76
QueryRewards_lenient ==
    /\ Running("query_rewards")
    /\ \E reply \in Replies([rewards |-> chain.rewards]) :
          LET r == execute_abci_query(reply) IN
          /\ trace' = trace \o QueryCalls("QueryDelegationTotalRewards", reply)
          /\ rewards' = IF r.ok THEN r.value.rewards ELSE <<>>
          /\ idx' = 1
          /\ cidx' = 0
          /\ withdraw_self_valoper' = None
          /\ withdraw_validators' = {}
          /\ collected_coins' = EmptyMap
          /\ Goto("pass")
    /\ UNCHANGED <<ser, args, chain, ctx, txv, bcast>>

QueryRewards ==
    /\ Running("query_rewards")
    /\ \E reply \in Replies([rewards |-> chain.rewards]) :
          LET r == execute_abci_query(reply) IN
          /\ trace' = trace \o QueryCalls("QueryDelegationTotalRewards", reply)
          /\ IF r.ok
             THEN /\ rewards' = r.value.rewards
                  /\ idx' = 1
                  /\ cidx' = 0
                  /\ withdraw_self_valoper' = None
                  /\ withdraw_validators' = {}
                  /\ collected_coins' = EmptyMap
                  /\ Goto("pass")
             ELSE /\ Fail(r.err)
                  /\ UNCHANGED pass
    /\ UNCHANGED <<ser, args, chain, ctx, txv, bcast>>

\* The position after coin k of entry i: its next coin, else the next entry.
NextCoin(i, k) ==
    IF k < Len(rewards[i].reward) THEN <<i, k + 1>> ELSE <<i + 1, 0>>

\* withdraw.rs:78-98: entering an entry of the response
PassEntry ==
    /\ Running("pass")
    /\ idx <= Len(rewards)
    /\ cidx = 0
    /\ LET reward == rewards[idx]
           validator_address == AccountIdFromStr(reward.validator_address)
       IN  IF ~validator_address.ok
           THEN /\ Fail("failed to parse validator address")
                /\ UNCHANGED <<trace, idx, cidx, withdraw_self_valoper,
                               collected_coins>>
           ELSE IF ~is_self_validator(validator_address.id, args.delegator_address)
           THEN /\ idx' = NextCoin(idx, 0)[1]
                /\ cidx' = NextCoin(idx, 0)[2]
                /\ Goto("pass")
                /\ UNCHANGED <<trace, withdraw_self_valoper, collected_coins>>
           ELSE \E reply \in Replies([commission |-> chain.commission]) :
                  LET r == execute_abci_query(reply)
                      added == collect_commission(collected_coins,
                                                  r.value.commission.value)
                  IN  /\ trace' = trace \o QueryCalls("QueryValidatorCommission", reply)
                      /\ IF ~r.ok
                         THEN /\ Fail("failed to query validator")
                              /\ UNCHANGED <<idx, cidx, withdraw_self_valoper,
                                             collected_coins>>
                         ELSE IF ~r.value.commission.some
                         THEN /\ idx' = NextCoin(idx, 0)[1]
                              /\ cidx' = NextCoin(idx, 0)[2]
                              /\ Goto("pass")
                              /\ UNCHANGED <<withdraw_self_valoper, collected_coins>>
                         ELSE IF ~added.ok
                         THEN /\ Fail(added.err)
                              /\ UNCHANGED <<idx, cidx, withdraw_self_valoper,
                                             collected_coins>>
                         ELSE /\ collected_coins' = added.value
                              /\ withdraw_self_valoper' = Some(reward.validator_address)
                              /\ idx' = NextCoin(idx, 0)[1]
                              /\ cidx' = NextCoin(idx, 0)[2]
                              /\ Goto("pass")
    /\ UNCHANGED <<ser, args, chain, ctx, rewards, withdraw_validators, txv, bcast>>

\* withdraw.rs:100-123: one reward coin of the entry
PassCoin ==
    /\ Running("pass")
    /\ idx <= Len(rewards)
    /\ cidx >= 1
    /\ LET reward == rewards[idx]
           r == reward_coin(thresholds_by_denom(args.thresholds),
                            withdraw_validators, collected_coins,
                            reward.validator_address, reward.reward[cidx])
       IN  IF ~r.ok
           THEN /\ Fail(r.err)
                /\ UNCHANGED <<idx, cidx, withdraw_validators, collected_coins>>
           ELSE /\ withdraw_validators' = r.value.withdraw_validators
                /\ collected_coins' = r.value.collected_coins
                /\ idx' = NextCoin(idx, cidx)[1]
                /\ cidx' = NextCoin(idx, cidx)[2]
                /\ Goto("pass")
    /\ UNCHANGED <<ser, args, chain, ctx, trace, rewards, withdraw_self_valoper, txv, bcast>>

\* withdraw.rs:126-190: after the loop
BuildWithdrawMsgs ==
    /\ Running("pass")
    /\ idx > Len(rewards)
    /\ IF nothing_to_withdraw(withdraw_validators, withdraw_self_valoper)
       THEN /\ Return
            /\ UNCHANGED msgs
       ELSE /\ \E order \in Orders(withdraw_validators) :
                 msgs' = withdraw_msgs(order, args, withdraw_self_valoper)
            /\ Goto("setup_signer")
    /\ UNCHANGED <<ser, args, chain, ctx, trace, pass, signer, fee, simulated, stdout,
                   signed_tx, bcast>>

(***************************************************************************)
(* Setup flow.                                                             *)
(***************************************************************************)
\* setup_valoper.rs:48-69
DetermineSetupMethod ==
    /\ Running("setup_method")
    /\ LET r == resolve_setup_method(
                    args.method, chain_info.chain_supports_setting_withdrawal_address)
       IN  IF r.ok
           THEN /\ setup_method' = r.value
                /\ Goto("get_account_details")
           ELSE /\ Fail(r.err)
                /\ UNCHANGED setup_method
    /\ UNCHANGED <<ser, args, chain, trace, chain_info, gas_info, accounts, pass, txv, bcast>>

\* setup_valoper.rs:79-156
BuildSetupMsgs ==
    /\ Running("setup_msgs")
    /\ msgs' = setup_msgs(setup_method, args, args.expiration)
    /\ Goto("setup_signer")
    /\ UNCHANGED <<ser, args, chain, ctx, trace, pass, signer, fee, simulated, stdout,
                   signed_tx, bcast>>

(***************************************************************************)
(* Inputs: the command line and the chain.                                 *)
(***************************************************************************)
DelegatorAddress ==
    [hrp |-> "cosmos", bytes |-> <<"ripemd160-sha256", "abandon ability able", 118>>]
ControllerAddress ==
    [hrp |-> "cosmos", bytes |-> <<"ripemd160-sha256", "relief raise grow", 118>>]

\* The delegator's own validator, and another one.
SelfValoper == Bech32("cosmosvaloper", DelegatorAddress.bytes)
OtherValoper == Bech32("cosmosvaloper", <<"ripemd160-sha256", "void come effort", 118>>)

BaseArgs ==
    [flow |-> "withdraw",
     account_hrp |-> None,
     valoper_hrp |-> None,
     delegator_address |-> DelegatorAddress,
     delegator_mnemonic |-> Some("abandon ability able"),
     delegator_address_type |-> None,
     delegator_mnemonic_coin_type |-> 118,
     controller_address |-> ControllerAddress,
     controller_mnemonic |-> Some("relief raise grow"),
     controller_mnemonic_coin_type |-> 118,
     controller_address_type |-> None,
     reward_address |-> None,
     memo |-> "cosmos-withdrawer",
     gas |-> GasAuto,
     gas_adjustment |-> Frac(5, 4),
     gas_prices |-> <<>>,
     sequence |-> None,
     account_number |-> None,
     generate_only |-> FALSE,
     dry_run |-> FALSE,
     thresholds |-> <<Coin("uatom", 10)>>,
     method |-> "Auto",
     expiration |-> None]

SecpAccount(address, account_number, sequence) ==
    Some(AccountAny("/cosmos.auth.v1beta1.BaseAccount", FALSE,
                    Some(BaseAccount(AccountIdToString(address),
                                     Some("/cosmos.crypto.secp256k1.PubKey"),
                                     account_number, sequence))))

BaseChain ==
    [id |-> "cosmoshub-4",
     bech32_prefix |-> "cosmos",
     params |-> Some([withdraw_addr_enabled |-> TRUE]),
     delegator_account |-> SecpAccount(DelegatorAddress, 11, 3),
     controller_account |-> SecpAccount(ControllerAddress, 12, 7),
     rewards |-> <<>>,
     commission |-> None,
     gas_info |-> Some([gas_used |-> 100]),
     check_tx_code |-> 0]

Entry(validator_address, reward) ==
    [validator_address |-> validator_address, reward |-> reward]

\* --threshold lists: none, one denomination, both, one given twice.
ThresholdLists ==
    {<<>>,
     <<Coin("uatom", 10)>>,
     <<Coin("uatom", 10), Coin("uosmo", 11)>>,
     <<Coin("uatom", 20), Coin("uatom", 10)>>}

\* Reward coins: below, at and (for the other denomination) at a threshold.
RewardCoins ==
    {Coin("uatom", <<"9">>), Coin("uatom", <<"1", "0">>), Coin("uosmo", <<"1", "1">>)}
\* An amount that is not an unsigned integer.
BadCoin == Coin("uosmo", <<"1", ".", "5">>)

\* Commission of the delegator's validator: no record, an empty one, one
\* of a zero amount, coins.
Commissions ==
    {None,
     Some(<<>>),
     Some(<<Coin("uatom", <<"0">>)>>),
     Some(<<Coin("uatom", <<"5">>), Coin("uosmo", <<"7">>)>>),
     Some(<<Coin("uatom", <<"5">>), BadCoin>>)}

\* Responses of at most n entries holding at most c well-formed coins in all.
RECURSIVE Responses(_, _)
Responses(n, c) ==
    IF n = 0 THEN {<<>>}
    ELSE {<<>>} \cup
         UNION {UNION {{<<Entry(v, reward)>> \o rest :
                           rest \in Responses(n - 1, c - Len(reward))} :
                       reward \in SeqUpTo(RewardCoins, c)} :
                v \in {SelfValoper, OtherValoper}}

\* Responses the pass cannot finish: an address that does not parse, a coin
\* amount that does not parse.
BrokenResponses ==
    {head \o <<Entry(Malformed, <<>>)>> : head \in Responses(1, 1)}
    \cup {head \o <<Entry(OtherValoper, <<BadCoin>>)>> : head \in Responses(1, 1)}

(***************************************************************************)
(* Specification of a whole run of either subcommand.                      *)
(***************************************************************************)
\* How the signing accounts are set up on the command line: each account's
\* own phrase; no phrase; each other's phrase; a phrase that is no mnemonic;
\* own phrases under another coin type; own phrases with the key type
\* overridden to the Ethermint one.
SigningSetups ==
    LET own == [controller_mnemonic |-> Some("relief raise grow"),
                delegator_mnemonic |-> Some("abandon ability able"),
                coin_type |-> 118, address_type |-> None]
    IN  {own,
         [own EXCEPT !.controller_mnemonic = None, !.delegator_mnemonic = None],
         [own EXCEPT !.controller_mnemonic = Some("abandon ability able"),
                     !.delegator_mnemonic = Some("relief raise grow")],
         [own EXCEPT !.controller_mnemonic = Some(InvalidMnemonic),
                     !.delegator_mnemonic = Some(InvalidMnemonic)],
         [own EXCEPT !.coin_type = 60],
         [own EXCEPT !.address_type = Some(EthermintSecp256k1(FALSE))]}

\* --expiration as TimestampStr::from_str leaves it: 2030-01-01T00:00:00Z.
Expiration == [seconds |-> 1893456000, nanos |-> 0]

RunArgs ==
    {[BaseArgs EXCEPT !.flow = f, !.method = m, !.generate_only = g,
                      !.dry_run = d, !.gas = gas, !.expiration = e,
                      !.controller_mnemonic = su.controller_mnemonic,
                      !.delegator_mnemonic = su.delegator_mnemonic,
                      !.controller_mnemonic_coin_type = su.coin_type,
                      !.delegator_mnemonic_coin_type = su.coin_type,
                      !.controller_address_type = su.address_type,
                      !.delegator_address_type = su.address_type] :
        f \in {"withdraw", "setup"}, m \in SetupValoperMethods,
        g \in BOOLEAN, d \in BOOLEAN, gas \in {GasAuto, GasAmount(200)},
        e \in {None, Some(Expiration)}, su \in SigningSetups}

RunRewards ==
    {<<>>,
     <<Entry(SelfValoper, <<Coin("uatom", <<"9">>)>>)>>,
     <<Entry(OtherValoper, <<Coin("uatom", <<"9">>)>>)>>,
     <<Entry(OtherValoper, <<Coin("uatom", <<"1", "0">>)>>)>>,
     <<Entry(OtherValoper, <<Coin("uatom", <<"1", "0">>)>>),
       Entry(SelfValoper, <<Coin("uatom", <<"1", "0">>)>>)>>,
     <<Entry(OtherValoper, <<Coin("uatom", <<"1", "0">>), BadCoin>>)>>}

RunChains ==
    {[BaseChain EXCEPT !.params = Some([withdraw_addr_enabled |-> en]),
                       !.rewards = r, !.commission = c,
                       !.gas_info = gi, !.check_tx_code = code] :
        en \in BOOLEAN, r \in RunRewards,
        c \in {None, Some(<<Coin("uatom", <<"5">>)>>),
               Some(<<Coin("uatom", <<"5">>), BadCoin>>)},
        gi \in {None, Some([gas_used |-> 100])},
        code \in {0, 5}}

\* The locals of the run, none of them assigned yet.
Unassigned ==
    /\ chain_info = None
    /\ gas_info = None
    /\ setup_method = "unset"
    /\ accounts = None
    /\ rewards = <<>>
    /\ idx = 0
    /\ cidx = 0
    /\ withdraw_self_valoper = None
    /\ withdraw_validators = {}
    /\ collected_coins = EmptyMap
    /\ msgs = <<>>
    /\ signer = None
    /\ fee = None
    /\ simulated = None
    /\ stdout = None
    /\ signed_tx = None
    /\ tx_result = None
    /\ attempt = 0
    /\ elapsed_ms = 0
    /\ encoded = None
    /\ decoded = None

Init ==
    /\ args \in RunArgs
    /\ args.flow = "withdraw" => (args.method = "Auto" /\ args.expiration = None)
    /\ chain \in RunChains
    /\ args.flow = "setup" => chain.rewards = <<>> /\ chain.commission = None
    /\ pc = "get_chain_info"
    /\ result = "running"
    /\ error = ""
    /\ trace = <<>>
    /\ Unassigned

Next ==
    \/ GetChainInfo
    \/ DetermineGas
    \/ DetermineSetupMethod
    \/ GetAccountDetails
    \/ QueryRewards
    \/ PassEntry
    \/ PassCoin
    \/ BuildWithdrawMsgs
    \/ BuildSetupMsgs
    \/ SetupSigner
    \/ ResolveFee
    \/ GenerateOnly
    \/ SignTransaction
    \/ Broadcast
    \/ PollTx

Spec == Init /\ [][Next]_vars

(***************************************************************************)
(* Specification of the reward decision engine alone: the withdraw flow    *)
(* from its total-rewards query to the message list, over every response   *)
(* within the bounds.  It starts where a run with the default command line *)
(* stands once chain metadata, gas and accounts are resolved.              *)
(***************************************************************************)
ResolvedChainInfo ==
    get_chain_info(BaseArgs.account_hrp, BaseArgs.valoper_hrp,
                   Ok([network |-> BaseChain.id]),
                   Answer([bech32_prefix |-> BaseChain.bech32_prefix]),
                   Answer([params |-> BaseChain.params]))

ResolvedAccounts ==
    get_account_details(BaseArgs, ResolvedChainInfo.result.value,
                        Answer([account |-> BaseChain.delegator_account]),
                        Answer([account |-> BaseChain.controller_account]))

InitPass ==
    /\ args \in {[BaseArgs EXCEPT !.thresholds = t] : t \in ThresholdLists}
    /\ chain \in {[BaseChain EXCEPT !.rewards = r, !.commission = c] :
                     r \in Responses(MaxEntries, MaxCoins) \cup BrokenResponses,
                     c \in Commissions}
    /\ pc = "query_rewards"
    /\ result = "running"
    /\ error = ""
    /\ trace = <<"get_chain_info">> \o ResolvedChainInfo.calls
               \o <<"determine_gas", "get_account_details">>
               \o ResolvedAccounts.calls
    /\ chain_info = ResolvedChainInfo.result.value
    /\ gas_info = Some(determine_gas(ResolvedChainInfo.result.value, BaseArgs).value)
    /\ setup_method = "unset"
    /\ accounts = Some(ResolvedAccounts.result.value)
    /\ rewards = <<>>
    /\ idx = 0
    /\ cidx = 0
    /\ withdraw_self_valoper = None
    /\ withdraw_validators = {}
    /\ collected_coins = EmptyMap
    /\ msgs = <<>>
    /\ signer = None
    /\ fee = None
    /\ simulated = None
    /\ stdout = None
    /\ signed_tx = None
    /\ tx_result = None
    /\ attempt = 0
    /\ elapsed_ms = 0
    /\ encoded = None
    /\ decoded = None

NextPass ==
    \/ QueryRewards
    \/ PassEntry
    \/ PassCoin
    \/ BuildWithdrawMsgs

SpecPass == InitPass /\ [][NextPass]_vars

(***************************************************************************)
(* Specification of whole runs over the gas inputs: gas option, adjustment, *)
(* supplied prices, a chain with and without a registry entry, simulation  *)
(* responses.                                                              *)
(***************************************************************************)
\* --gas-prices values (FloatStrCoin).
GasPrice(denom, amount) == [denom |-> denom, amount |-> amount]

GasArgs ==
    {[BaseArgs EXCEPT !.flow = f, !.gas = gas, !.gas_adjustment = adj,
                      !.gas_prices = gp, !.generate_only = g] :
        f \in {"withdraw", "setup"},
        gas \in {GasAuto, GasAmount(3), GasAmount(200)},
        adj \in {Frac(1, 1), Frac(5, 4), Frac(3, 2)},
        gp \in {<<>>,
                <<GasPrice("uosmo", Frac(1, 2))>>,
                <<GasPrice("uosmo", Frac(1, 2)), GasPrice("uatom", Frac(1, 8))>>},
        g \in BOOLEAN}

GasChains ==
    {[BaseChain EXCEPT !.id = id, !.gas_info = gi,
                       !.rewards = <<Entry(OtherValoper, <<Coin("uatom", <<"1", "0">>)>>)>>] :
        id \in {"cosmoshub-4", "localnet-1"},
        gi \in {None, Some([gas_used |-> 100]), Some([gas_used |-> 7])}}

InitGas ==
    /\ args \in GasArgs
    /\ chain \in GasChains
    /\ pc = "get_chain_info"
    /\ result = "running"
    /\ error = ""
    /\ trace = <<>>
    /\ Unassigned

SpecGas == InitGas /\ [][Next]_vars

(***************************************************************************)
(* Specification of whole runs over the on-chain account records: every    *)
(* account type get_account_info knows and one it does not, with and       *)
(* without a public key, with and without key type overrides.              *)
(***************************************************************************)
RewardAddress ==
    [hrp |-> "cosmos", bytes |-> <<"ripemd160-sha256", "void come effort", 118>>]

\* What the chain may hold for an address.
AccountRecords(address, account_number, sequence) ==
    LET base(pub_key) == Some(BaseAccount(AccountIdToString(address), pub_key,
                                          account_number, sequence))
        secp == Some("/cosmos.crypto.secp256k1.PubKey")
    IN  {None,
         Some(AccountAny("/cosmos.auth.v1beta1.BaseAccount", FALSE, base(secp))),
         Some(AccountAny("/cosmos.auth.v1beta1.BaseAccount", FALSE, base(None))),
         Some(AccountAny("/cosmos.vesting.v1beta1.ContinuousVestingAccount", TRUE,
                         base(secp))),
         Some(AccountAny("/cosmos.vesting.v1beta1.PeriodicVestingAccount", TRUE,
                         base(secp))),
         Some(AccountAny("/cosmos.vesting.v1beta1.PeriodicVestingAccount", TRUE, None)),
         Some(AccountAny("/ethermint.types.v1.EthAccount", FALSE,
                         base(Some("/ethermint.crypto.v1.ethsecp256k1.PubKey")))),
         Some(AccountAny("/injective.types.v1beta1.EthAccount", FALSE,
                         base(Some("/injective.crypto.v1beta1.ethsecp256k1.PubKey")))),
         Some(AccountAny("/cosmos.auth.v1beta1.ModuleAccount", FALSE, base(secp)))}

AccountsArgs ==
    {[BaseArgs EXCEPT !.flow = f, !.delegator_address_type = dt,
                      !.controller_address_type = ct, !.reward_address = ra,
                      !.generate_only = g] :
        f \in {"withdraw", "setup"}, g \in BOOLEAN,
        dt \in {None, Some(EthermintSecp256k1(FALSE))},
        ct \in {None, Some(EthermintSecp256k1(FALSE))},
        ra \in {None, Some(RewardAddress)}}

AccountsChains ==
    {[BaseChain EXCEPT !.delegator_account = d, !.controller_account = c,
                       !.rewards = <<Entry(OtherValoper, <<Coin("uatom", <<"1", "0">>)>>)>>] :
        d \in AccountRecords(DelegatorAddress, 11, 3),
        c \in AccountRecords(ControllerAddress, 12, 7)}

InitAccounts ==
    /\ args \in AccountsArgs
    /\ chain \in AccountsChains
    /\ pc = "get_chain_info"
    /\ result = "running"
    /\ error = ""
    /\ trace = <<>>
    /\ Unassigned

SpecAccounts == InitAccounts /\ [][Next]_vars

(***************************************************************************)
(* Specification of runs over the prefix options and the chain's metadata. *)
(***************************************************************************)
\* --account-hrp and --valoper-hrp: absent, the chain's own, another chain's,
\* and a string that is no prefix.
ChainInfoArgs ==
    {[BaseArgs EXCEPT !.flow = f, !.account_hrp = a, !.valoper_hrp = v, !.generate_only = g] :
        f \in {"withdraw", "setup"}, g \in BOOLEAN,
        a \in {None, Some("cosmos"), Some("iaa"), Some("")},
        v \in {None, Some("cosmosvaloper"), Some("iva"), Some("")}}

\* The registered prefix and the distribution parameters behind the queries.
ChainInfoChains ==
    {[BaseChain EXCEPT !.bech32_prefix = b, !.params = p,
                       !.rewards = <<Entry(OtherValoper, <<Coin("uatom", <<"1", "0">>)>>)>>] :
        b \in {"cosmos", "iaa", ""},
        p \in {None, Some([withdraw_addr_enabled |-> TRUE]),
               Some([withdraw_addr_enabled |-> FALSE])}}

InitChainInfo ==
    /\ args \in ChainInfoArgs
    /\ chain \in ChainInfoChains
    /\ pc = "get_chain_info"
    /\ result = "running"
    /\ error = ""
    /\ trace = <<>>
    /\ Unassigned

SpecChainInfo == InitChainInfo /\ [][Next]_vars

(***************************************************************************)
(* Specification of runs over the key types a transaction is signed with.  *)
(***************************************************************************)
\* The address a mnemonic's key has under the given address scheme.
SchemeAddress(scheme, mnemonic) == [hrp |-> "cosmos", bytes |-> <<scheme, mnemonic, 118>>]

\* The on-chain records of an account by the type of its public key.
KeyedAccounts(address, account_number, sequence) ==
    {r \in AccountRecords(address, account_number, sequence) :
        /\ r.some
        /\ r.value.type_url \in {"/cosmos.auth.v1beta1.BaseAccount",
                                  "/ethermint.types.v1.EthAccount",
                                  "/injective.types.v1beta1.EthAccount"}
        /\ r.value.base_account.value.pub_key.some}

\* Command lines whose addresses are derived the Cosmos or the Ethermint
\* way, with and without a key type override, with and without
\* --account-number and --sequence.
SigningArgs ==
    {[BaseArgs EXCEPT !.flow = f, !.generate_only = g, !.dry_run = d, !.gas = gas,
                      !.delegator_address = SchemeAddress(sch, "abandon ability able"),
                      !.controller_address = SchemeAddress(sch, "relief raise grow"),
                      !.delegator_address_type = t, !.controller_address_type = t,
                      !.account_number = n[1], !.sequence = n[2]] :
        f \in {"withdraw", "setup"}, g \in BOOLEAN, d \in BOOLEAN,
        n \in {<<None, None>>, <<Some(40), Some(41)>>, <<None, Some(41)>>},
        gas \in {GasAuto, GasAmount(200)},
        sch \in {"ripemd160-sha256", "keccak256-low20"},
        t \in {None, Some(EthermintSecp256k1(FALSE)), Some(EthermintSecp256k1(TRUE))}}

InitSigning ==
    /\ args \in SigningArgs
    /\ chain \in {[BaseChain EXCEPT !.delegator_account = da, !.controller_account = ca,
                                    !.rewards = <<Entry(OtherValoper, <<Coin("uatom", <<"1", "0">>)>>)>>] :
                      da \in KeyedAccounts(args.delegator_address, 11, 3),
                      ca \in KeyedAccounts(args.controller_address, 12, 7)}
    /\ pc = "get_chain_info"
    /\ result = "running"
    /\ error = ""
    /\ trace = <<>>
    /\ Unassigned

SpecSigning == InitSigning /\ [][Next]_vars

(***************************************************************************)
(* Specification of runs over the three addresses of the command line.     *)
(***************************************************************************)
\* The same account under another chain's prefix.
Foreign(address) == [address EXCEPT !.hrp = "osmo"]

\* Delegator, controller and reward addresses under the chain's prefix and
\* under another, distinct and coinciding, for every setup method.
AddressesArgs ==
    {[BaseArgs EXCEPT !.flow = f, !.method = m, !.generate_only = g,
                      !.account_hrp = h, !.delegator_address = d,
                      !.controller_address = c, !.reward_address = ra] :
        f \in {"withdraw", "setup"}, m \in SetupValoperMethods, g \in BOOLEAN,
        h \in {None, Some("osmo")},
        d \in {DelegatorAddress, Foreign(DelegatorAddress)},
        c \in {ControllerAddress, Foreign(ControllerAddress), DelegatorAddress},
        ra \in {None, Some(RewardAddress), Some(Foreign(RewardAddress)),
                Some(DelegatorAddress), Some(ControllerAddress)}}

InitAddresses ==
    /\ args \in AddressesArgs
    /\ args.flow = "withdraw" => args.method = "Auto"
    /\ chain \in {[BaseChain EXCEPT !.params = Some([withdraw_addr_enabled |-> en]),
                                    !.rewards = <<Entry(OtherValoper, <<Coin("uatom", <<"1", "0">>)>>)>>] :
                      en \in BOOLEAN}
    /\ pc = "get_chain_info"
    /\ result = "running"
    /\ error = ""
    /\ trace = <<>>
    /\ Unassigned

SpecAddresses == InitAddresses /\ [][Next]_vars

(***************************************************************************)
(* Specification of the encoding of one message and its decoding.          *)
(***************************************************************************)
\* Nesting depth of the granted-execution messages drawn.
MaxDepth == 2

\* One message of every variant but MsgExec, the grant with and without
\* its optional fields, the commission message of either validator.
SerLeaves ==
    LET d == AccountIdToString(DelegatorAddress)
        c == AccountIdToString(ControllerAddress)
    IN  {MsgGrant(d, c, Some(to_any(GenericAuthorization(TypeUrl("MsgSend")))),
                  Some(Expiration)),
         MsgGrant(d, c, None, None),
         MsgSetWithdrawAddress(d, c),
         MsgWithdrawDelegatorReward(d, OtherValoper),
         MsgWithdrawValidatorCommission(SelfValoper),
         MsgWithdrawValidatorCommission(OtherValoper),
         MsgSend(d, c, <<Coin("uatom", <<"5">>), Coin("uosmo", <<"7">>)>>),
         GenericAuthorization(TypeUrl("MsgWithdrawDelegatorReward"))}

\* The nested lists tried over a set of messages: none, one, and one with a
\* message of another variant before or after it.
NestedLists(M) ==
    LET others == {MsgSetWithdrawAddress(AccountIdToString(DelegatorAddress),
                                         AccountIdToString(ControllerAddress)),
                   MsgWithdrawValidatorCommission(SelfValoper)}
    IN  {<<>>} \cup {<<x>> : x \in M}
        \cup {<<x, y>> : x \in M, y \in others}
        \cup {<<y, x>> : x \in M, y \in others}

\* The messages of the union nested at most `depth` deep.
RECURSIVE SerMessages(_)
SerMessages(depth) ==
    IF depth = 0 THEN SerLeaves
    ELSE SerLeaves \cup
         {MsgExecCustom(AccountIdToString(ControllerAddress), l) :
             l \in NestedLists(SerMessages(depth - 1))}

\* CosmosJsonSerializable::to_any on the message
ToAny ==
    /\ Running("to_any")
    /\ encoded' = Some(to_any(msgs[1]))
    /\ Goto("to_msg")
    /\ UNCHANGED <<args, chain, trace, ctx, pass, txv, bcast, decoded>>

\* Any::to_msg on the result, by its type URL
ToMsg ==
    /\ Running("to_msg")
    /\ LET r == from_any(encoded.value) IN
        IF r.ok
        THEN /\ decoded' = Some(r.value)
             /\ Return
        ELSE /\ Fail(r.err)
             /\ UNCHANGED decoded
    /\ UNCHANGED <<args, chain, trace, ctx, pass, txv, bcast, encoded>>

InitSer ==
    /\ args = BaseArgs
    /\ chain = BaseChain
    /\ pc = "to_any"
    /\ result = "running"
    /\ error = ""
    /\ trace = <<>>
    /\ msgs \in {<<m>> : m \in SerMessages(MaxDepth)}
    /\ chain_info = None
    /\ gas_info = None
    /\ setup_method = "unset"
    /\ accounts = None
    /\ rewards = <<>>
    /\ idx = 0
    /\ cidx = 0
    /\ withdraw_self_valoper = None
    /\ withdraw_validators = {}
    /\ collected_coins = EmptyMap
    /\ signer = None
    /\ fee = None
    /\ simulated = None
    /\ stdout = None
    /\ signed_tx = None
    /\ tx_result = None
    /\ attempt = 0
    /\ elapsed_ms = 0
    /\ encoded = None
    /\ decoded = None

NextSer ==
    \/ ToAny
    \/ ToMsg

SpecSer == InitSer /\ [][NextSer]_vars

(***************************************************************************)
(* Properties of the reward decision pass (withdraw.rs:74-150).            *)
(***************************************************************************)
RECURSIVE SumOver(_, _)
SumOver(f, S) ==
    IF S = {} THEN 0
    ELSE LET x == CHOOSE y \in S : TRUE IN f[x] + SumOver(f, S \ {x})

\* <<i, k>>: the k-th reward coin of the i-th entry of the response.
CoinPositions ==
    UNION {{<<i, k>> : k \in 1..Len(rewards[i].reward)} : i \in 1..Len(rewards)}
CoinAt(p) == rewards[p[1]].reward[p[2]]
AmountAt(p) == ParseBigUint(CoinAt(p).amount)

\* The pass has decided the coin at p; it has entered entry i.
Decided(p) == p[1] < idx \/ (p[1] = idx /\ p[2] < cidx)
Entered(i) == i < idx \/ (i = idx /\ cidx >= 1)
PassDone == args.flow = "withdraw" /\ idx >= 1 /\ idx > Len(rewards)

\* The --threshold in effect for a denomination is the last one given.
ConfiguredDenoms == {args.thresholds[i].denom : i \in 1..Len(args.thresholds)}
ThresholdInEffect(denom) ==
    LET given == {i \in 1..Len(args.thresholds) : args.thresholds[i].denom = denom}
    IN  args.thresholds[CHOOSE i \in given : \A j \in given : j <= i].amount
MeetsThreshold(coin) ==
    /\ coin.denom \in ConfiguredDenoms
    /\ ParseBigUint(coin.amount).ok
    /\ ParseBigUint(coin.amount).value >= ThresholdInEffect(coin.denom)

ResponseValidators == {rewards[i].validator_address : i \in 1..Len(rewards)}
QualifyingValidators ==
    {rewards[p[1]].validator_address :
        p \in {q \in CoinPositions : MeetsThreshold(CoinAt(q))}}

\* C1: at every point of the pass a validator is in the withdrawal set
\* exactly if one of its reward coins decided so far has a denomination with
\* a configured threshold and a parsed amount of at least that threshold;
\* coins of other denominations and coins strictly below their threshold
\* never put a validator in the set.
C1_SetIffCoinMeetsThreshold ==
    \A v \in ResponseValidators \cup withdraw_validators :
        v \in withdraw_validators
        <=> \E p \in CoinPositions :
               /\ Decided(p)
               /\ rewards[p[1]].validator_address = v
               /\ MeetsThreshold(CoinAt(p))

\* The pass is over; one validator is in the set on a coin exactly at its
\* threshold, another stays out with a coin one below the threshold.
C1_Witness ==
    /\ PassDone /\ pc = "setup_signer"
    /\ \E p, q \in CoinPositions :
          /\ rewards[p[1]].validator_address \in withdraw_validators
          /\ CoinAt(p).denom \in ConfiguredDenoms
          /\ AmountAt(p).value = ThresholdInEffect(CoinAt(p).denom)
          /\ rewards[q[1]].validator_address \notin withdraw_validators
          /\ CoinAt(q).denom \in ConfiguredDenoms
          /\ AmountAt(q).value = ThresholdInEffect(CoinAt(q).denom) - 1

\* The nested messages of the authz execution built by the withdraw flow.
NestedMsgs == IF msgs = <<>> THEN <<>> ELSE msgs[1].msgs
RewardMsgsFor(v) ==
    {i \in 1..Len(NestedMsgs) :
        /\ NestedMsgs[i].kind = "MsgWithdrawDelegatorReward"
        /\ NestedMsgs[i].validator_address = v}

\* C2: once the messages are built, every validator with at least one
\* qualifying reward coin is a member of the withdrawal set and has exactly
\* one withdraw-delegator-reward message, however many of its coins qualify
\* and however many entries the response holds for it.
C2_OneRewardMsgPerValidator ==
    (PassDone /\ msgs # <<>>) =>
        \A v \in QualifyingValidators :
            /\ v \in withdraw_validators
            /\ Cardinality(RewardMsgsFor(v)) = 1

\* A validator listed in two entries, each with a qualifying coin, and the
\* messages built from the set.
C2_Witness ==
    /\ PassDone /\ msgs # <<>>
    /\ \E p, q \in CoinPositions :
          /\ p[1] # q[1]
          /\ rewards[p[1]].validator_address = rewards[q[1]].validator_address
          /\ MeetsThreshold(CoinAt(p))
          /\ MeetsThreshold(CoinAt(q))
          /\ Cardinality(RewardMsgsFor(rewards[p[1]].validator_address)) = 1

\* The commission coins the pass has added: those of the chain's commission
\* record, once for every entry entered whose address has the delegator's
\* bytes.
SelfEntriesEntered ==
    {i \in 1..Len(rewards) :
        /\ Entered(i)
        /\ rewards[i].validator_address.wf
        /\ rewards[i].validator_address.bytes = args.delegator_address.bytes}
CommissionCoins == IF chain.commission.some THEN chain.commission.value ELSE <<>>

\* The sum the ledger must hold for a denomination.
IncludedRewardSum(denom) ==
    LET included == {p \in CoinPositions :
                        /\ Decided(p)
                        /\ CoinAt(p).denom = denom
                        /\ MeetsThreshold(CoinAt(p))}
    IN  SumOver([p \in included |-> AmountAt(p).value], included)
IncludedCommissionSum(denom) ==
    LET of_denom == {k \in 1..Len(CommissionCoins) : CommissionCoins[k].denom = denom}
    IN  IF SelfEntriesEntered = {} THEN 0
        ELSE Cardinality(SelfEntriesEntered)
             * SumOver([k \in of_denom |->
                           ParseBigUint(CommissionCoins[k].amount).value], of_denom)
IncludedDenoms ==
    {CoinAt(p).denom : p \in {q \in CoinPositions :
                                 Decided(q) /\ MeetsThreshold(CoinAt(q))}}
    \cup {CommissionCoins[k].denom :
            k \in {j \in 1..Len(CommissionCoins) : SelfEntriesEntered # {}}}

\* C3: at every point of the pass the ledger holds, per denomination, the
\* exact sum of the parsed amounts of the coins included so far: the reward
\* coins that met their threshold and the commission coins of the entries
\* of the delegator's own validator.
C3_LedgerIsSumOfIncluded ==
    /\ DOMAIN collected_coins = IncludedDenoms
    /\ \A denom \in DOMAIN collected_coins :
          collected_coins[denom] = IncludedRewardSum(denom) + IncludedCommissionSum(denom)

\* The ledger holds, under one denomination, a commission coin next to two
\* reward coins that met the threshold.
C3_Witness ==
    /\ PassDone
    /\ \E denom \in DOMAIN collected_coins :
          /\ IncludedCommissionSum(denom) > 0
          /\ \E p, q \in CoinPositions :
                /\ p # q
                /\ CoinAt(p).denom = denom /\ MeetsThreshold(CoinAt(p))
                /\ CoinAt(q).denom = denom /\ MeetsThreshold(CoinAt(q))
          /\ collected_coins[denom] > IncludedCommissionSum(denom)

\* C4: when the pass is over with an empty withdrawal set and no commission
\* pending, the withdraw flow returns successfully as its next step, and no
\* signer is set up, nothing is simulated, signed or broadcast.
C4_NothingToWithdrawEndsQuietly ==
    (PassDone /\ withdraw_validators = {} /\ ~withdraw_self_valoper.some) =>
        /\ (pc = "pass" /\ result = "running") \/ result = "ok"
        /\ \A i \in DOMAIN trace :
              trace[i] \notin {"setup_signer", "simulate_tx", "Simulate",
                               "sign_transaction", "broadcast_tx_sync"}
        /\ msgs = <<>> /\ signer = None /\ simulated = None
        /\ signed_tx = None /\ tx_result = None

\* A response whose only coin stays below its threshold: the run has
\* returned Ok after the pass.
C4_Witness ==
    /\ PassDone /\ result = "ok" /\ msgs = <<>>
    /\ withdraw_validators = {} /\ ~withdraw_self_valoper.some
    /\ \E p \in CoinPositions :
          /\ CoinAt(p).denom \in ConfiguredDenoms
          /\ AmountAt(p).value < ThresholdInEffect(CoinAt(p).denom)

\* Entries of the response whose address has the delegator's address bytes.
SelfEntries ==
    {i \in 1..Len(rewards) :
        /\ rewards[i].validator_address.wf
        /\ rewards[i].validator_address.bytes = args.delegator_address.bytes}

\* C5: when the pass is over, the response holds an entry for the
\* delegator's own validator and the chain holds a commission record, then
\* every commission coin is in the ledger (beyond the reward coins that met
\* a threshold), the commission marker names that validator and, once the
\* messages are built, its withdraw-validator-commission message is among
\* them, whatever the thresholds.
C5_SelfCommissionAlwaysWithdrawn ==
    (PassDone /\ SelfEntries # {} /\ chain.commission.some) =>
        /\ withdraw_self_valoper.some
        /\ withdraw_self_valoper.value
              \in {rewards[i].validator_address : i \in SelfEntries}
        /\ \A k \in 1..Len(CommissionCoins) :
              LET denom == CommissionCoins[k].denom IN
              /\ denom \in DOMAIN collected_coins
              /\ collected_coins[denom] - IncludedRewardSum(denom)
                    = IncludedCommissionSum(denom)
              /\ IncludedCommissionSum(denom)
                    >= ParseBigUint(CommissionCoins[k].amount).value
        /\ pc # "pass" =>
              \E i \in 1..Len(NestedMsgs) :
                  NestedMsgs[i] =
                      MsgWithdrawValidatorCommission(withdraw_self_valoper.value)

\* No reward coin qualifies and a commission coin lies below the threshold
\* of its denomination, yet it is in the ledger and the commission message
\* is the only nested message.
C5_Witness ==
    /\ PassDone /\ pc = "setup_signer" /\ withdraw_validators = {}
    /\ \E k \in 1..Len(CommissionCoins) :
          /\ CommissionCoins[k].denom \in ConfiguredDenoms
          /\ ParseBigUint(CommissionCoins[k].amount).value
                < ThresholdInEffect(CommissionCoins[k].denom)
          /\ collected_coins[CommissionCoins[k].denom]
                = ParseBigUint(CommissionCoins[k].amount).value
    /\ NestedMsgs = <<MsgWithdrawValidatorCommission(SelfValoper)>>

(***************************************************************************)
(* Properties of a whole run.                                              *)
(***************************************************************************)
Called(call) == \E i \in DOMAIN trace : trace[i] = call

\* What the claim says of a transaction body of the withdraw flow.
OneExecOfTheWithdrawals(body) ==
    /\ Len(body.messages) = 1
    /\ body.messages[1].type_url = "/cosmos.authz.v1beta1.MsgExec"
    /\ body.messages[1].value[1] = AccountIdToString(args.controller_address)
    /\ LET nested == body.messages[1].value[2]
           n == Cardinality(withdraw_validators)
       IN  /\ Len(nested) = n + (IF withdraw_self_valoper.some THEN 1 ELSE 0)
           /\ \A i \in 1..n :
                 /\ nested[i].type_url
                       = "/cosmos.distribution.v1beta1.MsgWithdrawDelegatorReward"
                 /\ nested[i].value[1] = AccountIdToString(args.delegator_address)
                 /\ nested[i].value[2] \in withdraw_validators
           /\ \A v \in withdraw_validators :
                 \E i \in 1..n : nested[i].value[2] = v
           /\ withdraw_self_valoper.some =>
                 nested[n + 1] =
                     ProtoAny("/cosmos.distribution.v1beta1.MsgWithdrawValidatorCommission",
                              <<withdraw_self_valoper.value>>)

\* C6: every transaction body the withdraw flow builds, for simulation or
\* for signing, has exactly one top-level message, an authz MsgExec whose
\* grantee is the controller and whose nested list is one
\* withdraw-delegator-reward message of the delegator per validator of the
\* withdrawal set, followed by one commission message exactly when a
\* commission is pending.
C6_BodyIsOneExec ==
    args.flow = "withdraw" =>
        /\ msgs # <<>> =>
              OneExecOfTheWithdrawals(construct_transaction_body(args.memo, msgs))
        /\ simulated.some => OneExecOfTheWithdrawals(simulated.value.body)
        /\ signed_tx.some => OneExecOfTheWithdrawals(signed_tx.value.body)

\* A signed transaction for two validators and the commission.
C6_Witness ==
    /\ args.flow = "withdraw" /\ signed_tx.some
    /\ Cardinality(withdraw_validators) = 2
    /\ withdraw_self_valoper.some
    /\ Len(signed_tx.value.body.messages[1].value[2]) = 3

\* C7: in both flows a run that has broadcast returns Ok only if the
\* response code was zero and a lookup found the transaction; a non-zero
\* code makes the run fail, with no lookup and no second broadcast.
C7_OkNeedsCodeZeroAndLookup ==
    Called("broadcast_tx_sync") =>
        /\ result = "ok" =>
              /\ tx_result.some
              /\ tx_result.value.code = 0
              /\ Called("find_by_hash:Ok")
        /\ (tx_result.some /\ tx_result.value.code # 0) =>
              /\ result = "err"
              /\ ~Called("find_by_hash:Ok") /\ ~Called("find_by_hash:Err")
              /\ Cardinality({i \in DOMAIN trace : trace[i] = "broadcast_tx_sync"}) = 1

Lookups == {i \in DOMAIN trace : trace[i] \in {"find_by_hash:Ok", "find_by_hash:Err"}}
FailedLookups == {i \in DOMAIN trace : trace[i] = "find_by_hash:Err"}

\* C8: polling makes at most five lookups and goes on only while fewer than
\* five were made; a lookup that finds the transaction is the last one and
\* the run returns Ok; five failed lookups end the run with the time-out
\* error, which differs from the error of a rejected broadcast, and that
\* error is raised in no other case.
C8_PollIsBounded ==
    /\ Cardinality(Lookups) <= 5
    /\ (pc = "poll_tx" /\ result = "running") => Cardinality(Lookups) < 5
    /\ \A i \in Lookups :
          trace[i] = "find_by_hash:Ok" => (i = Len(trace) /\ result = "ok")
    /\ Cardinality(FailedLookups) = 5 =>
          /\ result = "err"
          /\ error = "polling for tx timed out"
          /\ error # "transaction failed"
    /\ error = "polling for tx timed out" => Cardinality(FailedLookups) = 5

\* Five lookups failed 2.5 s apart and the run ended with the time-out.
C8_Witness ==
    /\ Cardinality(FailedLookups) = 5
    /\ Cardinality(Lookups) = 5
    /\ elapsed_ms = 12500
    /\ result = "err" /\ error = "polling for tx timed out"

\* The account that signs: the controller when withdrawing, the delegator
\* when setting up.
SigningMnemonic ==
    IF args.flow = "withdraw" THEN args.controller_mnemonic
    ELSE args.delegator_mnemonic
SigningCoinType ==
    IF args.flow = "withdraw" THEN args.controller_mnemonic_coin_type
    ELSE args.delegator_mnemonic_coin_type
SigningAddress ==
    IF args.flow = "withdraw" THEN args.controller_address
    ELSE args.delegator_address
SigningKeyType ==
    IF args.flow = "withdraw" THEN accounts.value.controller_key_type
    ELSE accounts.value.delegator_key_type
\* The address of the key derived from the mnemonic, under the resolved key
\* type and the account prefix.
RederivedAddress ==
    account_id(TxSigner(derive_key(SigningMnemonic.value, "", SigningCoinType).value,
                        SigningKeyType, 0, 0),
               chain_info.bech32_account_prefix)
CannotSign ==
    /\ accounts.some
    /\ ~args.generate_only
    /\ \/ ~SigningMnemonic.some
       \/ /\ derive_key(SigningMnemonic.value, "", SigningCoinType).ok
          /\ RederivedAddress # SigningAddress

\* C9: without generate-only, when the mnemonic of the signing account is
\* missing or the address derived from it differs from the configured
\* address, no simulation query is made, nothing is signed and nothing is
\* broadcast, and the signer set-up fails the run.
C9_NoSigningForAForeignKey ==
    CannotSign =>
        /\ ~Called("simulate_tx") /\ ~Called("Simulate")
        /\ ~Called("sign_transaction")
        /\ ~Called("broadcast_tx_sync")
        /\ signer = None /\ simulated = None /\ signed_tx = None
        /\ Called("setup_signer") =>
              /\ result = "err"
              /\ error = (IF SigningMnemonic.some THEN "expected address mismatch"
                          ELSE "mnemonic not available")

\* The signing account's own phrase under another coin type: the signer
\* set-up has failed on the address.
C9_Witness ==
    /\ Called("setup_signer")
    /\ ~args.generate_only
    /\ SigningMnemonic = Some(IF args.flow = "withdraw" THEN "relief raise grow"
                              ELSE "abandon ability able")
    /\ SigningCoinType = 60
    /\ result = "err" /\ error = "expected address mismatch"

\* C10: a broadcast is made only when neither flag is set.  With
\* generate-only, whether or not dry-run is set too, no mnemonic is needed,
\* nothing is signed, and a run that built messages and returned Ok has
\* resolved the fee and printed the unsigned transaction with that fee and an
\* empty signatures list.  With dry-run alone a run that built messages and
\* returned Ok has set up the signer, resolved the fee and signed, and
\* signing is its last step.
C10_FlagsGateTheBroadcast ==
    /\ Called("broadcast_tx_sync") => (~args.generate_only /\ ~args.dry_run)
    /\ ~args.generate_only => stdout = None
    /\ args.generate_only =>
          /\ ~Called("sign_transaction") /\ signed_tx = None
          /\ error \notin {"mnemonic not available", "failed to parse mnemonic",
                           "expected address mismatch"}
          /\ (result = "ok" /\ msgs # <<>>) => stdout.some
          /\ stdout.some =>
                /\ result = "ok"
                /\ Called("get_fee") /\ fee.some
                /\ stdout.value.auth_info.fee =
                      [amount |-> fee.value.amount, gas_limit |-> fee.value.gas_limit]
                /\ stdout.value.signatures = <<>>
                /\ trace[Len(trace)] = "generate_unsigned_tx_json"
    /\ (args.dry_run /\ ~args.generate_only) =>
          /\ (result = "ok" /\ msgs # <<>>) => signed_tx.some
          /\ signed_tx.some =>
                /\ result = "ok"
                /\ Called("setup_signer") /\ Called("get_fee")
                /\ trace[Len(trace)] = "sign_transaction"

\* Both flags set and no mnemonic given: the unsigned transaction is
\* printed and the run has returned Ok.
C10_Witness ==
    /\ args.generate_only /\ args.dry_run
    /\ ~SigningMnemonic.some
    /\ result = "ok"
    /\ stdout.some /\ stdout.value.signatures = <<>>

(***************************************************************************)
(* Properties of gas and fee resolution.                                   *)
(***************************************************************************)
CallCount(call) == Cardinality({i \in DOMAIN trace : trace[i] = call})
InRegistry(id) == id \in DOMAIN CHAIN_GAS_DENOMS_PRICES
AccountOrLaterCalls ==
    {"get_account_details", "QueryAccount(delegator)", "QueryAccount(controller)",
     "QueryDelegationTotalRewards", "QueryValidatorCommission",
     "simulate_tx", "Simulate", "sign_transaction", "broadcast_tx_sync"}

\* C11: the gas denomination and price are those of the first supplied gas
\* price when one is supplied, also for a chain id with a registry entry;
\* otherwise those of the registry entry of the chain id; and with neither,
\* the run fails in determine_gas with no account lookup, reward query or
\* simulation made.
C11_GasPriceBySuppliedThenRegistry ==
    /\ gas_info.some =>
          IF args.gas_prices # <<>>
          THEN /\ gas_info.value.denom = args.gas_prices[1].denom
               /\ gas_info.value.price = args.gas_prices[1].amount
          ELSE /\ InRegistry(chain.id)
               /\ gas_info.value.denom = CHAIN_GAS_DENOMS_PRICES[chain.id].denom
               /\ gas_info.value.price = CHAIN_GAS_DENOMS_PRICES[chain.id].price
    /\ (args.gas_prices = <<>> /\ ~InRegistry(chain.id)) =>
          /\ gas_info = None
          /\ \A i \in DOMAIN trace : trace[i] \notin AccountOrLaterCalls
          /\ Called("determine_gas") => (result = "err" /\ error = "Unknown chain id")

\* Two prices supplied on a chain with a registry entry of another
\* denomination: the first supplied one is in effect.
C11_Witness ==
    /\ Len(args.gas_prices) = 2 /\ InRegistry(chain.id)
    /\ args.gas_prices[1].denom # CHAIN_GAS_DENOMS_PRICES[chain.id].denom
    /\ gas_info.some
    /\ gas_info.value.denom = args.gas_prices[1].denom
    /\ fee.some /\ fee.value.amount[1].denom = args.gas_prices[1].denom

\* Integer ceiling and rounding (half up) of the fraction n / d, n >= 0.
CeilDiv(n, d) == (n + d - 1) \div d
RoundDiv(n, d) == (2 * n + d) \div (2 * d)
OneCoinFee(denom, amount, gas_limit) ==
    [amount |-> <<[denom |-> denom, amount |-> amount]>>, gas_limit |-> gas_limit]

C13_ManualLimitIgnoresAdjustment ==
    (~args.gas.auto /\ fee.some) =>
        \A adj \in {Frac(1, 1), Frac(5, 4), Frac(3, 2)} :
            get_fee(determine_gas(chain_info,
                                  [args EXCEPT !.gas_adjustment = adj]).value) = fee

\* C14: the transaction handed to the Simulate query carries the fee of 1
\* unit of the gas denomination with gas limit 1 and one signature; the fee
\* resolved from it has gas_limit = round(gas_used * adjustment) and amount
\* round(gas_limit * price); when the response has no gas info the run has
\* failed, and nothing is printed, signed or broadcast.
C14_SimulatedFee ==
    /\ simulated.some =>
          /\ simulated.value.auth_info.fee = OneCoinFee(gas_info.value.denom, 1, 1)
          /\ Len(simulated.value.signatures) = 1
    /\ (args.gas.auto /\ fee.some) =>
          /\ chain.gas_info.some
          /\ LET gas_limit == RoundDiv(chain.gas_info.value.gas_used
                                          * args.gas_adjustment.n,
                                       args.gas_adjustment.d)
             IN  fee.value =
                     OneCoinFee(gas_info.value.denom,
                                RoundDiv(gas_limit * gas_info.value.price.n,
                                         gas_info.value.price.d),
                                gas_limit)
    /\ (Called("Simulate") /\ ~chain.gas_info.some) =>
          /\ result = "err"
          /\ fee = None /\ stdout = None /\ signed_tx = None
          /\ ~Called("sign_transaction") /\ ~Called("broadcast_tx_sync")

\* 7 gas used, adjustment 1.25, price 0.25: the limit rounds 8.75 up to 9
\* and the amount rounds 2.25 down to 2; the real transaction is signed
\* with that fee.
C14_Witness ==
    /\ args.gas.auto /\ args.gas_adjustment = Frac(5, 4) /\ args.gas_prices = <<>>
    /\ chain.gas_info = Some([gas_used |-> 7])
    /\ fee = Some(OneCoinFee("uatom", 2, 9))
    /\ signed_tx.some /\ signed_tx.value.auth_info.fee = fee.value

(***************************************************************************)
(* Properties of account resolution.                                       *)
(***************************************************************************)
SupportedAccountTypes ==
    {"/cosmos.auth.v1beta1.BaseAccount",
     "/cosmos.vesting.v1beta1.ContinuousVestingAccount",
     "/cosmos.vesting.v1beta1.PeriodicVestingAccount",
     "/ethermint.types.v1.EthAccount",
     "/injective.types.v1beta1.EthAccount"}
\* The record is of a supported type and embeds a base account.
Resolvable(record) ==
    /\ record.some
    /\ record.value.type_url \in SupportedAccountTypes
    /\ record.value.base_account.some
HasNoPublicKey(record) ==
    Resolvable(record) /\ ~record.value.base_account.value.pub_key.some
\* The account queries of the run were answered (none failed in transport,
\* with a code or in decoding).
AccountsAnswered ==
    Called("QueryAccount(delegator)") /\ error # "failed to query account"

\* C15: for an account whose record carries no public key, the key type is
\* the override when one is given, and resolution fails for want of a key
\* type only when there is neither a public key nor an override; for the
\* delegator as for the controller.
C15_OverrideStandsInForMissingKey ==
    AccountsAnswered =>
        /\ (HasNoPublicKey(chain.delegator_account)
            /\ args.delegator_address_type.some) =>
              /\ error # "delegation account does not have public key information"
              /\ accounts.some =>
                    accounts.value.delegator_key_type = args.delegator_address_type.value
        /\ (HasNoPublicKey(chain.controller_account)
            /\ args.controller_address_type.some /\ accounts.some) =>
              accounts.value.controller_key_type = args.controller_address_type.value

\* The base account a record embeds.
EmbeddedBaseAccount(record) == record.value.base_account.value

\* C16: each account is queried at most once (no retry).  When the queries
\* were answered: a missing record yields nothing, which the caller reports
\* as an uninitialized account; a record of one of the five supported types
\* yields its embedded base account, account number and sequence
\* unchanged; a record of any other type fails the run with the
\* unsupported-account-type error, no key type or account being resolved
\* from it.
C16_AccountInfoByType ==
    /\ CallCount("QueryAccount(delegator)") <= 1
    /\ CallCount("QueryAccount(controller)") <= 1
    /\ accounts.some =>
          /\ Resolvable(chain.delegator_account)
          /\ Resolvable(chain.controller_account)
          /\ accounts.value.delegator_account
                = EmbeddedBaseAccount(chain.delegator_account)
          /\ accounts.value.controller_account
                = EmbeddedBaseAccount(chain.controller_account)
          /\ accounts.value.delegator_account.account_number = 11
          /\ accounts.value.delegator_account.sequence = 3
          /\ accounts.value.controller_account.account_number = 12
          /\ accounts.value.controller_account.sequence = 7
    /\ AccountsAnswered =>
          /\ ~chain.delegator_account.some =>
                (result = "err" /\ error = "delegator account is not initialized")
          /\ (chain.delegator_account.some
              /\ chain.delegator_account.value.type_url \notin SupportedAccountTypes) =>
                /\ result = "err" /\ error = "unsupported account type"
                /\ accounts = None
                /\ ~Called("QueryAccount(controller)")
          /\ (Called("QueryAccount(controller)") /\ ~chain.controller_account.some) =>
                (result = "err" /\ error = "controller account is not initialized")
          /\ (Called("QueryAccount(controller)")
              /\ chain.controller_account.some
              /\ chain.controller_account.value.type_url \notin SupportedAccountTypes) =>
                /\ result = "err" /\ error = "unsupported account type"
                /\ accounts = None

\* A continuous vesting delegator and an Injective EthAccount controller:
\* both embedded base accounts are resolved with their numbers.
C16_Witness ==
    /\ chain.delegator_account.some
    /\ chain.delegator_account.value.type_url
          = "/cosmos.vesting.v1beta1.ContinuousVestingAccount"
    /\ chain.controller_account.some
    /\ chain.controller_account.value.type_url = "/injective.types.v1beta1.EthAccount"
    /\ accounts.some
    /\ accounts.value.delegator_account.account_number = 11
    /\ accounts.value.controller_account.sequence = 7

\* C17: the controller is queried only after the delegator resolved; with
\* an uninitialized delegator the controller is never queried; with either
\* account uninitialized the run fails in account resolution and no reward
\* query, simulation, signature or broadcast is made; no account other
\* than the delegator and the controller is ever queried.
C17_DelegatorThenController ==
    /\ \A i \in DOMAIN trace :
          trace[i] = "QueryAccount(controller)" =>
              /\ i > 1 /\ trace[i - 1] = "QueryAccount(delegator)"
              /\ Resolvable(chain.delegator_account)
    /\ ~chain.delegator_account.some => ~Called("QueryAccount(controller)")
    /\ (~chain.delegator_account.some \/ ~chain.controller_account.some) =>
          /\ accounts = None
          /\ \A i \in DOMAIN trace :
                trace[i] \notin {"QueryDelegationTotalRewards", "QueryValidatorCommission",
                                 "setup_signer", "simulate_tx", "Simulate",
                                 "sign_transaction", "broadcast_tx_sync"}
          /\ Called("QueryAccount(delegator)") => result = "err"
    /\ CallCount("QueryAccount(delegator)") + CallCount("QueryAccount(controller)")
          = Cardinality({i \in DOMAIN trace :
                            trace[i] \notin {"get_chain_info", "get_status", "Bech32Prefix",
                                "QueryDistributionParams", "determine_gas",
                                "get_account_details", "QueryDelegationTotalRewards",
                                "QueryValidatorCommission", "setup_signer", "get_fee",
                                "simulate_tx", "Simulate", "generate_unsigned_tx_json",
                                "sign_transaction", "broadcast_tx_sync",
                                "print_tx_result", "find_by_hash:Ok",
                                "find_by_hash:Err", "!transport", "!code",
                                "!decode"}})

\* A reward address is given, the delegator resolved and the controller is
\* uninitialized: the run has failed right after the two queries.
C17_Witness ==
    /\ args.reward_address.some
    /\ Resolvable(chain.delegator_account) /\ ~chain.controller_account.some
    /\ Called("QueryAccount(controller)")
    /\ result = "err" /\ error = "controller account is not initialized"
    /\ trace[Len(trace)] = "QueryAccount(controller)"

\* The chain queries of the two flows, by the name they leave in the trace.
ChainQueries ==
    {"QueryAccount(delegator)", "QueryAccount(controller)", "Bech32Prefix",
     "QueryDistributionParams", "QueryValidatorCommission",
     "QueryDelegationTotalRewards", "Simulate"}

\* The positions of the trace where a query failed in transport or was
\* answered with a non-zero response code.
FailedQueries == {i \in DOMAIN trace : trace[i] \in {"!transport", "!code"}}

\* C18: a chain query that fails in transport or returns a non-zero response
\* code aborts the run with an error: the failed query is the last thing the
\* run does (it is not retried and no later step runs), and the run has
\* issued no broadcast.
C18_FailedQueryAborts ==
    \A i \in FailedQueries :
        /\ i > 1 /\ trace[i - 1] \in ChainQueries
        /\ i = Len(trace)
        /\ pc = "exit" /\ result = "err" /\ error # ""
        /\ ~Called("broadcast_tx_sync")
        /\ ~Called("sign_transaction")

\* A run that got as far as the simulation and had it refused by the node.
C18_Witness ==
    /\ FailedQueries # {}
    /\ trace[Len(trace)] = "!code"
    /\ trace[Len(trace) - 1] = "Simulate"
    /\ Called("setup_signer")
    /\ result = "err"

\* Whether some amount of the coin list is no unsigned integer.
HasBadAmount(coins) == \E k \in DOMAIN coins : ~ParseBigUint(coins[k].amount).ok

\* The response that was received holds a reward coin whose amount does not
\* parse.
BadRewardAmount == \E i \in DOMAIN rewards : HasBadAmount(rewards[i].reward)

\* The response names the delegator's own validator, whose commission holds
\* a coin whose amount does not parse.
BadCommissionAmount ==
    /\ \E i \in DOMAIN rewards :
          /\ AccountIdFromStr(rewards[i].validator_address).ok
          /\ is_self_validator(AccountIdFromStr(rewards[i].validator_address).id,
                               args.delegator_address)
    /\ chain.commission.some
    /\ HasBadAmount(chain.commission.value)

\* C19: when a reward coin or a commission coin of the pass has an amount
\* that is no unsigned integer, the withdraw flow never gets past the pass:
\* it ends in an error, with no message list, no signer, no signature and no
\* broadcast, also when the coin's denomination has no threshold.
C19_UnparseableAmountIsFatal ==
    (BadRewardAmount \/ BadCommissionAmount) =>
        /\ pc \in {"pass", "exit"}
        /\ pc = "exit" => (result = "err" /\ error # "")
        /\ msgs = <<>> /\ signed_tx = None /\ stdout = None
        /\ ~Called("setup_signer") /\ ~Called("simulate_tx")
        /\ ~Called("sign_transaction") /\ ~Called("broadcast_tx_sync")

\* The pass has counted a validator in and then failed on a coin of a
\* denomination for which no threshold is configured.
C19_Witness ==
    /\ pc = "exit" /\ result = "err"
    /\ error = "failed to parse reward coin amount"
    /\ withdraw_validators # {}
    /\ idx \in DOMAIN rewards /\ cidx \in DOMAIN rewards[idx].reward
    /\ ~ParseBigUint(rewards[idx].reward[cidx].amount).ok
    /\ rewards[idx].reward[cidx].denom \notin ConfiguredDenoms

\* The authorization grants among the messages of the transaction.
Grants == {i \in DOMAIN msgs : msgs[i].kind = "MsgGrant"}

\* C20: in the setup flow every grant of the transaction carries the
\* expiration given on the command line, and none carries one when none was
\* given, whichever setup method was chosen.
C20_GrantsCarryTheExpiration ==
    args.flow = "setup" =>
        \A i \in Grants : msgs[i].grant.expiration = args.expiration

\* The chain metadata of a setup run has been resolved.
SetupChainResolved == args.flow = "setup" /\ chain_info # None

\* The error of an explicit authz-withdraw on a chain without the support.
UnsupportedWithdrawAddress ==
    "this chain does not support setting withdrawal address for distribution"

\* C21: Auto resolves to authz-withdraw on a chain that supports setting the
\* withdrawal address and to authz-send otherwise; an explicit authz-withdraw
\* on a chain without the support fails before any account query and before
\* any message is built; an explicit authz-send is accepted on every chain;
\* the resolved method is never Auto.
C21_SetupMethodResolution ==
    SetupChainResolved =>
        LET supported == chain_info.chain_supports_setting_withdrawal_address
            refused == args.method = "AuthzWithdraw" /\ ~supported
        IN  /\ setup_method \in {"unset", "AuthzWithdraw", "AuthzSend"}
            /\ setup_method # "unset" =>
                  /\ args.method = "Auto" =>
                        setup_method = (IF supported THEN "AuthzWithdraw"
                                        ELSE "AuthzSend")
                  /\ args.method # "Auto" => setup_method = args.method
            /\ refused =>
                  /\ setup_method = "unset" /\ msgs = <<>>
                  /\ ~Called("get_account_details")
                  /\ ~Called("QueryAccount(delegator)")
                  /\ pc = "exit" => result = "err"
            /\ error = UnsupportedWithdrawAddress => refused
            /\ (~refused /\ pc \notin {"determine_gas", "setup_method"}
                          /\ Called("determine_gas") /\ gas_info # None) =>
                  setup_method # "unset"

\* An explicit authz-withdraw refused on a chain without the support.
C21_Witness ==
    /\ SetupChainResolved
    /\ args.method = "AuthzWithdraw"
    /\ ~chain_info.chain_supports_setting_withdrawal_address
    /\ pc = "exit" /\ result = "err" /\ error = UnsupportedWithdrawAddress

\* The query of the given name was sent and failed, in any of the three ways.
QueryFailed(query) ==
    \E i \in DOMAIN trace :
        /\ trace[i] = query /\ i < Len(trace)
        /\ trace[i + 1] \in {"!transport", "!code", "!decode"}

\* The account prefix get_chain_info works with, and the valoper prefix.
AccountPrefix ==
    IF args.account_hrp.some THEN args.account_hrp.value ELSE chain.bech32_prefix
ValoperPrefix ==
    IF args.valoper_hrp.some THEN args.valoper_hrp.value
    ELSE AccountPrefix \o "valoper"

\* C22: once the status is known, get_chain_info queries the bech32 prefix
\* if and only if no account prefix was supplied; the valoper prefix is the
\* supplied one, else the account prefix followed by "valoper"; the support
\* flag is the flag of the distribution params, false when the response has
\* no params; a failed status or params query or a string that is no prefix
\* makes it fail.
C22_ChainInfo ==
    Called("get_chain_info") =>
        LET status_failed == error = "failed to get chain status" IN
        /\ Called("Bech32Prefix") <=> (~args.account_hrp.some /\ ~status_failed)
        /\ chain_info # None =>
              /\ chain_info.id = chain.id
              /\ chain_info.bech32_account_prefix = AccountPrefix
              /\ chain_info.bech32_valoper_prefix = ValoperPrefix
              /\ chain_info.chain_supports_setting_withdrawal_address
                    = (chain.params.some /\ chain.params.value.withdraw_addr_enabled)
              /\ Called("QueryDistributionParams")
        /\ ( \/ status_failed
             \/ QueryFailed("Bech32Prefix")
             \/ QueryFailed("QueryDistributionParams")
             \/ AccountPrefix = ""
             \/ ValoperPrefix = "" ) =>
              /\ chain_info = None
              /\ pc = "exit" /\ result = "err" /\ error # ""
              /\ ~Called("determine_gas")

\* Chain metadata resolved for a chain whose response carries no params,
\* with the prefix queried and the valoper prefix derived from it.
C22_Witness ==
    /\ chain_info # None
    /\ ~args.account_hrp.some /\ ~args.valoper_hrp.some
    /\ Called("Bech32Prefix")
    /\ chain.bech32_prefix = "iaa"
    /\ chain_info.bech32_valoper_prefix = "iaavaloper"
    /\ ~chain.params.some
    /\ ~chain_info.chain_supports_setting_withdrawal_address

\* C23: a signed transaction carries exactly one signature: 64 bytes over
\* the sign document for a Secp256k1 signer, 65 bytes (the recovery id
\* appended) over the Keccak-256 hash of the sign document for an
\* EthermintSecp256k1 signer, whatever its injective flag.
C23_SignatureLengthByKeyType ==
    signed_tx # None =>
        LET tx == signed_tx.value
            key_type == signer.value.key_type
        IN  /\ Len(tx.signatures) = 1
            /\ tx.signatures[1].key = signer.value.key
            /\ tx.signatures[1].doc
                 = SignDoc(tx.body, tx.auth_info, chain_info.id,
                           signer.value.account_number)
            /\ key_type.variant = "Secp256k1" =>
                  /\ Len(tx.signatures[1].bytes) = 64
                  /\ tx.signatures[1].digest = "sha256"
            /\ key_type.variant = "EthermintSecp256k1" =>
                  /\ Len(tx.signatures[1].bytes) = 65
                  /\ tx.signatures[1].bytes[65] = "v"
                  /\ tx.signatures[1].digest = "keccak256"

\* A transaction signed with an Ethermint key of the Injective flavour.
C23_Witness ==
    /\ signed_tx # None
    /\ signer.value.key_type = EthermintSecp256k1(TRUE)
    /\ Len(signed_tx.value.signatures[1].bytes) = 65

\* How deep the granted-execution messages of a message nest.
RECURSIVE Depth(_)
Depth(m) ==
    IF m.kind # "MsgExec" \/ m.msgs = <<>> THEN 0
    ELSE LET below == {Depth(m.msgs[i]) : i \in DOMAIN m.msgs}
         IN  1 + CHOOSE k \in below : \A j \in below : j <= k

IsGrantFor(m, msg_type_url) ==
    /\ m.kind = "MsgGrant"
    /\ m.granter = AccountIdToString(args.delegator_address)
    /\ m.grantee = AccountIdToString(args.controller_address)
    /\ m.grant.authorization.some
    /\ m.grant.authorization.value.type_url
         = "/cosmos.authz.v1beta1.GenericAuthorization"
    /\ m.grant.authorization.value.value = <<msg_type_url>>

\* C25: the setup flow emits exactly three messages, every grant from the
\* delegator to the controller: for authz-withdraw a set-withdraw-address
\* message (to the reward address, else to the controller), then grants for
\* withdraw-delegator-reward and withdraw-validator-commission; for
\* authz-send grants for withdraw-delegator-reward,
\* withdraw-validator-commission and send, and no set-withdraw-address.
C25_SetupMessages ==
    (args.flow = "setup" /\ msgs # <<>>) =>
        /\ Len(msgs) = 3
        /\ setup_method = "AuthzWithdraw" =>
              /\ msgs[1] = MsgSetWithdrawAddress(
                               AccountIdToString(args.delegator_address),
                               AccountIdToString(
                                   IF args.reward_address.some
                                   THEN args.reward_address.value
                                   ELSE args.controller_address))
              /\ IsGrantFor(msgs[2],
                      "/cosmos.distribution.v1beta1.MsgWithdrawDelegatorReward")
              /\ IsGrantFor(msgs[3],
                      "/cosmos.distribution.v1beta1.MsgWithdrawValidatorCommission")
        /\ setup_method = "AuthzSend" =>
              /\ IsGrantFor(msgs[1],
                      "/cosmos.distribution.v1beta1.MsgWithdrawDelegatorReward")
              /\ IsGrantFor(msgs[2],
                      "/cosmos.distribution.v1beta1.MsgWithdrawValidatorCommission")
              /\ IsGrantFor(msgs[3], "/cosmos.bank.v1beta1.MsgSend")
              /\ \A i \in DOMAIN msgs : msgs[i].kind # "MsgSetWithdrawAddress"
        /\ setup_method \in {"AuthzWithdraw", "AuthzSend"}

\* An authz-withdraw setup whose withdraw address is the reward address.
C25_Witness ==
    /\ args.flow = "setup" /\ msgs # <<>>
    /\ setup_method = "AuthzWithdraw"
    /\ args.reward_address = Some(RewardAddress)
    /\ msgs[1].withdraw_address = AccountIdToString(RewardAddress)

\* What verify_accounts refuses, against the prefix the chain info holds.
RefusedAddresses ==
    LET prefix == chain_info.bech32_account_prefix IN
    \/ args.delegator_address.hrp # prefix
    \/ args.controller_address.hrp # prefix
    \/ args.delegator_address = args.controller_address
    \/ args.reward_address.some /\ args.reward_address.value.hrp # prefix
    \/ args.reward_address.some /\ args.reward_address.value = args.delegator_address

\* C26: get_account_details fails before any account query when the
\* delegator's or the controller's prefix is not the chain's, when the two
\* addresses are equal, when the reward address has another prefix or is the
\* delegator's address; with none of these, a reward address equal to the
\* controller's included, the delegator's account is queried.
C26_AddressesVerifiedFirst ==
    Called("get_account_details") =>
        /\ RefusedAddresses =>
              /\ pc = "exit" /\ result = "err"
              /\ error \in
                   {"provided delegator address prefix does not match with chain",
                    "provided controller address prefix does not match with chain",
                    "delegator and controller addresses should not be equal",
                    "provided reward address prefix does not match with chain",
                    "delegator and reward addresses should not be equal"}
              /\ accounts = None
              /\ ~Called("QueryAccount(delegator)")
              /\ ~Called("QueryAccount(controller)")
        /\ ~RefusedAddresses => Called("QueryAccount(delegator)")

\* Accounts resolved with the reward address set to the controller's.
C26_Witness ==
    /\ accounts # None
    /\ args.reward_address = Some(args.controller_address)
    /\ Called("QueryAccount(controller)")

\* The type URLs of the messages nested in the execution of an encoded body.
NestedTypeUrls(body) ==
    {body.messages[1].value[2][i].type_url : i \in DOMAIN body.messages[1].value[2]}

\* The two withdraw messages, by type URL.
WithdrawTypeUrls ==
    {"/cosmos.distribution.v1beta1.MsgWithdrawDelegatorReward",
     "/cosmos.distribution.v1beta1.MsgWithdrawValidatorCommission"}

\* C27: in the withdraw flow, on chains with and without a settable
\* withdrawal address, the nested list holds withdraw-delegator-reward and
\* withdraw-validator-commission messages only, never a send: it is one
\* reward message per validator of the withdrawal set and the commission
\* message if one is pending, whatever the ledger holds.
C27_WithdrawNeverSends ==
    (args.flow = "withdraw" /\ msgs # <<>>) =>
        /\ Len(msgs) = 1 /\ msgs[1].kind = "MsgExec"
        /\ \A i \in DOMAIN NestedMsgs :
              NestedMsgs[i].kind \in {"MsgWithdrawDelegatorReward",
                                      "MsgWithdrawValidatorCommission"}
        /\ {NestedMsgs[i] : i \in DOMAIN NestedMsgs}
             = {MsgWithdrawDelegatorReward(AccountIdToString(args.delegator_address), v) :
                    v \in withdraw_validators}
               \cup (IF withdraw_self_valoper.some
                     THEN {MsgWithdrawValidatorCommission(withdraw_self_valoper.value)}
                     ELSE {})
        /\ simulated.some => NestedTypeUrls(simulated.value.body) \subseteq WithdrawTypeUrls
        /\ signed_tx.some => NestedTypeUrls(signed_tx.value.body) \subseteq WithdrawTypeUrls

\* A withdrawal signed on a chain without a settable withdrawal address,
\* with coins in the ledger.
C27_Witness ==
    /\ args.flow = "withdraw" /\ signed_tx.some
    /\ ~chain_info.chain_supports_setting_withdrawal_address
    /\ DOMAIN collected_coins # {}

\* The account a flow signs as: its address, its mnemonic, its record.
SignsAsController == args.flow = "withdraw"
SignerAddress ==
    IF SignsAsController THEN args.controller_address ELSE args.delegator_address
SignerMnemonic ==
    IF SignsAsController THEN args.controller_mnemonic ELSE args.delegator_mnemonic
SignerRecord ==
    IF SignsAsController THEN chain.controller_account.value.base_account.value
    ELSE chain.delegator_account.value.base_account.value

\* The account number and the sequence a transaction was signed with.
NumbersOf(tx) ==
    <<tx.signatures[1].doc.account_number, tx.auth_info.signer_infos[1].sequence>>

\* C28: the withdraw transaction is signed as the controller and the setup
\* transaction as the delegator; account number and sequence are each the
\* command-line override if given, else the value of that account's record
\* on the chain; the simulated and the signed transaction of a run carry
\* the same pair.
C28_SignerAndNumbers ==
    signer.some =>
        LET expected == <<IF args.account_number.some THEN args.account_number.value
                          ELSE SignerRecord.account_number,
                          IF args.sequence.some THEN args.sequence.value
                          ELSE SignerRecord.sequence>>
        IN  /\ <<signer.value.account_number, signer.value.sequence>> = expected
            /\ ~args.generate_only =>
                  /\ signer.value.key.mnemonic = SignerMnemonic.value
                  /\ account_id(signer.value, chain_info.bech32_account_prefix)
                       = SignerAddress
            /\ simulated.some =>
                  /\ NumbersOf(simulated.value) = expected
                  /\ simulated.value.signatures[1].key = signer.value.key
            /\ signed_tx.some =>
                  /\ NumbersOf(signed_tx.value) = expected
                  /\ signed_tx.value.signatures[1].key.mnemonic = SignerMnemonic.value
                  /\ signed_tx.value.signatures[1].key = signer.value.key

\* A setup transaction simulated and signed by the delegator with the
\* sequence overridden and the account number taken from the chain.
C28_Witness ==
    /\ args.flow = "setup"
    /\ simulated.some /\ signed_tx.some
    /\ ~args.account_number.some /\ args.sequence = Some(41)
    /\ NumbersOf(signed_tx.value) = <<11, 41>>
    /\ signed_tx.value.signatures[1].key.mnemonic = args.delegator_mnemonic.value

\* The commission record holds nothing to collect: no coin, or zero amounts.
NoCommissionToCollect ==
    \A k \in 1..Len(CommissionCoins) :
        /\ ParseBigUint(CommissionCoins[k].amount).ok
        /\ ParseBigUint(CommissionCoins[k].amount).value = 0

\* C29: when the pass is over and the commission query for an entry of the
\* delegator's own validator returned a record, the commission marker is
\* set and a transaction is built whose nested list ends with the
\* withdraw-validator-commission message, also when the record holds no
\* coin or zero amounts only and no reward coin met its threshold.
C29_CommissionRecordSuffices ==
    (PassDone /\ SelfEntries # {} /\ chain.commission.some) =>
        /\ withdraw_self_valoper.some
        /\ pc # "pass" =>
              /\ pc = "setup_signer" /\ result = "running"
              /\ msgs # <<>>
              /\ NestedMsgs[Len(NestedMsgs)]
                   = MsgWithdrawValidatorCommission(withdraw_self_valoper.value)
              /\ Len(NestedMsgs) = Cardinality(withdraw_validators) + 1
              /\ NoCommissionToCollect =>
                    \A d \in DOMAIN collected_coins :
                        collected_coins[d] = IncludedRewardSum(d)

\* A transaction of the commission message alone, built for a commission
\* record of one zero amount when no reward coin met its threshold.
C29_Witness ==
    /\ PassDone /\ pc = "setup_signer"
    /\ chain.commission = Some(<<Coin("uatom", <<"0">>)>>)
    /\ withdraw_validators = {}
    /\ NestedMsgs = <<MsgWithdrawValidatorCommission(withdraw_self_valoper.value)>>
    /\ collected_coins["uatom"] = 0

\* The steps a broadcast comes after, in the order of the code.
BroadcastStages ==
    <<"get_chain_info", "determine_gas", "get_account_details", "setup_signer",
      "get_fee", "sign_transaction", "broadcast_tx_sync">>

\* Where the only occurrence of a call is in the trace.
PositionOf(call) == CHOOSE i \in DOMAIN trace : trace[i] = call

\* The messages and the memo of a transaction body are those of the run.
BodyOfTheRun(body) ==
    /\ body.memo = args.memo
    /\ Len(body.messages) = Len(msgs)
    /\ \A i \in 1..Len(msgs) : body.messages[i] = to_any(msgs[i])

\* C30: a run broadcasts at most once, and only after chain metadata
\* resolution, gas determination, account resolution, signer setup, fee
\* resolution (a static fee, or exactly one simulation) and signing have
\* each been done once, in this order, and succeeded; the signed body has
\* the messages and the memo of the simulated one.
C30_OneBroadcastAfterEveryStage ==
    /\ CallCount("broadcast_tx_sync") <= 1
    /\ CallCount("Simulate") <= 1
    /\ (simulated.some /\ signed_tx.some) =>
          /\ simulated.value.body.messages = signed_tx.value.body.messages
          /\ simulated.value.body.memo = signed_tx.value.body.memo
    /\ Called("broadcast_tx_sync") =>
          /\ \A k \in DOMAIN BroadcastStages : CallCount(BroadcastStages[k]) = 1
          /\ \A k \in 1..(Len(BroadcastStages) - 1) :
                PositionOf(BroadcastStages[k]) < PositionOf(BroadcastStages[k + 1])
          /\ \A i \in 1..PositionOf("broadcast_tx_sync") :
                trace[i] \notin {"!transport", "!code", "!decode",
                                 "generate_unsigned_tx_json"}
          /\ chain_info # None /\ gas_info.some /\ accounts.some
          /\ signer.some /\ fee.some /\ signed_tx.some
          /\ IF gas_info.value.limit.some
             THEN /\ ~Called("simulate_tx") /\ ~Called("Simulate")
                  /\ simulated = None
             ELSE /\ CallCount("simulate_tx") = 1 /\ CallCount("Simulate") = 1
                  /\ PositionOf("simulate_tx") = PositionOf("get_fee") + 1
                  /\ PositionOf("Simulate") = PositionOf("get_fee") + 2
                  /\ PositionOf("sign_transaction") = PositionOf("get_fee") + 3
                  /\ simulated.some
                  /\ BodyOfTheRun(simulated.value.body)
          /\ BodyOfTheRun(signed_tx.value.body)
          /\ signed_tx.value.auth_info.fee = fee.value
          /\ ~args.generate_only /\ ~args.dry_run

\* A withdrawal broadcast after one simulation: the simulated and the signed
\* transaction carry the same body, of one message and the memo of the run.
C30_Witness ==
    /\ args.flow = "withdraw"
    /\ Called("broadcast_tx_sync") /\ tx_result # None
    /\ CallCount("Simulate") = 1
    /\ simulated.some /\ signed_tx.some
    /\ simulated.value.body = signed_tx.value.body
    /\ Len(signed_tx.value.body.messages) = 1
    /\ signed_tx.value.body.memo = "cosmos-withdrawer"
    /\ simulated.value.auth_info.fee # signed_tx.value.auth_info.fee

====
